---- MODULE Spec2Model ----
(***************************************************************************)
(* llm_rank_tracker: the fan-out of KeywordRankTracker.query_all_platforms *)
(* and the aggregation of calculate_average_rankings / compare_rankings.   *)
(*                                                                         *)
(* A Python str is a sequence of one-character strings, so that lower(),   *)
(* strip(), replace(), split() and the `in` test are computed character by *)
(* character.  A Python dict is a sequence of entries in insertion order.  *)
(***************************************************************************)
EXTENDS Integers, Sequences, FiniteSets, TLC

(***************************************************************************)
(* Strings                                                                 *)
(***************************************************************************)
Sp == <<" ">>
wCoffee == <<"C", "o", "f", "f", "e", "e">>
wCanister == <<"C", "a", "n", "i", "s", "t", "e", "r">>
wContainer == <<"C", "o", "n", "t", "a", "i", "n", "e", "r">>
wJar == <<"J", "a", "r">>
wGator == <<"G", "a", "t", "o", "r">>
wAirscape == <<"A", "i", "r", "s", "c", "a", "p", "e">>
wOXO == <<"O", "X", "O">>
wFellow == <<"F", "e", "l", "l", "o", "w">>
wAtmos == <<"A", "t", "m", "o", "s">>
wVacuum == <<"V", "a", "c", "u", "u", "m">>
\* a word in which a stop word is split by another stop word
wCofjarfee == <<"C", "o", "f", "j", "a", "r", "f", "e", "e">>

\* the titles of the mock responses of test_average_rankings and of the demo
tCoffeeGator == wCoffee \o Sp \o wGator
tCoffeeGatorCanister == wCoffee \o Sp \o wGator \o Sp \o wCanister
tAirscape == wAirscape
tOXOContainer == wOXO \o Sp \o wContainer
tAirscapeCoffeeCanister == wAirscape \o Sp \o wCoffee \o Sp \o wCanister
tFellowAtmos == wFellow \o Sp \o wAtmos
tFellowAtmosVacuumCanister == wFellow \o Sp \o wAtmos \o Sp \o wVacuum \o Sp \o wCanister

KnownTitles ==
    {tCoffeeGator, tCoffeeGatorCanister, tAirscape, tOXOContainer,
     tAirscapeCoffeeCanister, tFellowAtmos, tFellowAtmosVacuumCanister}

UpperLetters ==
    <<"A", "B", "C", "D", "E", "F", "G", "H", "I", "J", "K", "L", "M",
      "N", "O", "P", "Q", "R", "S", "T", "U", "V", "W", "X", "Y", "Z">>
LowerLetters ==
    <<"a", "b", "c", "d", "e", "f", "g", "h", "i", "j", "k", "l", "m",
      "n", "o", "p", "q", "r", "s", "t", "u", "v", "w", "x", "y", "z">>

LowerMap ==
    [c \in {UpperLetters[i] : i \in 1..26} |->
        LowerLetters[CHOOSE i \in 1..26 : UpperLetters[i] = c]]

\* str.lower() on one character
LowerChar(c) == IF c \in DOMAIN LowerMap THEN LowerMap[c] ELSE c

\* str.lower()
Lower(s) == [i \in 1..Len(s) |-> LowerChar(s[i])]

IsSpace(c) == c = " "

RECURSIVE LStrip(_)
LStrip(s) == IF s # <<>> /\ IsSpace(Head(s)) THEN LStrip(Tail(s)) ELSE s

RECURSIVE RStrip(_)
RStrip(s) ==
    IF s # <<>> /\ IsSpace(s[Len(s)]) THEN RStrip(SubSeq(s, 1, Len(s) - 1)) ELSE s

\* str.strip()
Strip(s) == RStrip(LStrip(s))

\* s.startswith(w)
StartsWith(s, w) == Len(w) <= Len(s) /\ SubSeq(s, 1, Len(w)) = w

\* str.replace(w, ''): one left-to-right scan, non-overlapping occurrences
RECURSIVE Remove(_, _)
Remove(s, w) ==
    IF s = <<>> THEN <<>>
    ELSE IF StartsWith(s, w) THEN Remove(SubSeq(s, Len(w) + 1, Len(s)), w)
    ELSE <<Head(s)>> \o Remove(Tail(s), w)

\* str.split(): the whitespace-separated tokens, in order
RECURSIVE SplitFrom(_, _)
SplitFrom(s, cur) ==
    IF s = <<>> THEN (IF cur = <<>> THEN <<>> ELSE <<cur>>)
    ELSE IF IsSpace(Head(s))
         THEN (IF cur = <<>> THEN <<>> ELSE <<cur>>) \o SplitFrom(Tail(s), <<>>)
         ELSE SplitFrom(Tail(s), Append(cur, Head(s)))

Split(s) == SplitFrom(s, <<>>)

\* ' '.join(tokens)
RECURSIVE JoinSp(_)
JoinSp(toks) ==
    IF toks = <<>> THEN <<>>
    ELSE IF Len(toks) = 1 THEN toks[1]
    ELSE toks[1] \o Sp \o JoinSp(Tail(toks))

\* a in b
IsSubstring(a, b) ==
    \E i \in 1..(Len(b) - Len(a) + 1) : SubSeq(b, i, i + Len(a) - 1) = a

(***************************************************************************)
(* KeywordRankTracker.normalize_title                                      *)
(***************************************************************************)
StopWords ==
    << Lower(wCoffee), Lower(wCanister), Lower(wContainer), Lower(wJar),
       <<"v", "a", "u", "l", "t">>, <<"s", "t", "o", "r", "a", "g", "e">> >>

RECURSIVE RemoveAll(_, _)
RemoveAll(s, words) ==
    IF words = <<>> THEN s ELSE RemoveAll(Remove(s, Head(words)), Tail(words))

\* variant: the stop words are kept
normalize_title_KeepStopWords(title) == JoinSp(Split(Strip(Lower(title))))

normalize_title(title) == JoinSp(Split(RemoveAll(Strip(Lower(title)), StopWords)))

\* normalize_title with the `for word in [...]` loop going through the
\* words in the given order
normalize_title_in_order(title, words) ==
    JoinSp(Split(RemoveAll(Strip(Lower(title)), words)))

\* title.lower().strip(): the key of a table entry
TitleKey(title) == Strip(Lower(title))

\* normalize_title tabulated once over the titles and keys of the model
NormalizeTable ==
    [t \in KnownTitles \cup {TitleKey(k) : k \in KnownTitles} |-> normalize_title(t)]

\* self.normalize_title(title), read from the table where it has the title
Normalized(title) ==
    IF title \in DOMAIN NormalizeTable THEN NormalizeTable[title] ELSE normalize_title(title)

(***************************************************************************)
(* KeywordRankTracker.find_similar_items                                   *)
(***************************************************************************)
ToSet(seq) == {seq[i] : i \in 1..Len(seq)}

\* variant: only `normalized in other_normalized` is tested
SimilarOneWay(title, other_title) ==
    LET normalized == Normalized(title)
        other_normalized == Normalized(other_title)
    IN  \/ IsSubstring(normalized, other_normalized)
        \/ Cardinality(ToSet(Split(normalized)) \cap ToSet(Split(other_normalized))) >= 2

\* the test of find_similar_items for one other title
Similar(title, other_title) ==
    LET normalized == Normalized(title)
        other_normalized == Normalized(other_title)
    IN  \/ IsSubstring(normalized, other_normalized)
        \/ IsSubstring(other_normalized, normalized)
        \/ Cardinality(ToSet(Split(normalized)) \cap ToSet(Split(other_normalized))) >= 2

\* find_similar_items(title, items_dict): the similar keys, in dict order
find_similar_items(title, keys) ==
    SelectSeq(keys, LAMBDA other_title : Similar(title, other_title))

(***************************************************************************)
(* Data model: RankResult, PlatformResponse, dicts                         *)
(***************************************************************************)
\* Optional[str]: None is <<>>, a message m is <<m>>
None == <<>>
Some(m) == <<m>>

\* RankResult(rank=rank, title=title): description and source default to None
RankResult(rank, title) ==
    [rank |-> rank, title |-> title, description |-> None, source |-> None]

\* `if response.error:` -- None and the empty string are both falsy
Truthy(error) == error # None /\ error[1] # ""

PlatformResponse(platform, model, ranked_items, input_tokens, output_tokens, cost, error) ==
    [platform |-> platform, model |-> model, ranked_items |-> ranked_items,
     input_tokens |-> input_tokens, output_tokens |-> output_tokens,
     cost |-> cost, error |-> error]

\* a dict is a sequence of [key, val] in insertion order
DictKeys(d) == [i \in 1..Len(d) |-> d[i].key]

HasKey(d, k) == \E i \in 1..Len(d) : d[i].key = k

IndexOf(d, k) == CHOOSE i \in 1..Len(d) : d[i].key = k

DictGet(d, k) == d[IndexOf(d, k)].val

\* d[k] = v: an existing key keeps its position, a new key goes last
DictPut(d, k, v) ==
    IF HasKey(d, k)
    THEN [d EXCEPT ![IndexOf(d, k)] = [key |-> k, val |-> v]]
    ELSE Append(d, [key |-> k, val |-> v])

(***************************************************************************)
(* KeywordRankTracker.calculate_average_rankings                           *)
(***************************************************************************)
\* variant: only the identical key counts as an existing entry
FirstSameNormalizedExactKey(keys, title_key) ==
    LET hits == {i \in 1..Len(keys) : title_key = keys[i]}
    IN  IF hits = {} THEN 0 ELSE CHOOSE i \in hits : \A j \in hits : i <= j

\* index of the first existing key with the same normalized form, 0 if none
FirstSameNormalized(keys, title_key) ==
    LET hits == {i \in 1..Len(keys) :
                    Normalized(title_key) = Normalized(keys[i])}
    IN  IF hits = {} THEN 0 ELSE CHOOSE i \in hits : \A j \in hits : i <= j

\* variant: an item joins the first key find_similar_items reports
FoldItemWithMatcher(item_rankings, platform, item) ==
    LET title_key == TitleKey(item.title)
        keys == DictKeys(item_rankings)
        similar == find_similar_items(title_key, keys)
        Appended(i) ==
            [item_rankings EXCEPT
                ![i].val.ranks = Append(@, item.rank),
                ![i].val.platforms = Append(@, platform)]
    IN  IF similar # <<>>
        THEN Appended(IndexOf(item_rankings, similar[1]))
        ELSE Append(item_rankings,
                    [key |-> title_key,
                     val |-> [title |-> item.title,
                              ranks |-> <<item.rank>>,
                              platforms |-> <<platform>>]])

\* variant: a merged entity replaces the display title of its entry
FoldItemRetitling(item_rankings, platform, item) ==
    LET title_key == TitleKey(item.title)
        keys == DictKeys(item_rankings)
        i == IF HasKey(item_rankings, title_key)
             THEN IndexOf(item_rankings, title_key)
             ELSE FirstSameNormalized(keys, title_key)
    IN  IF i # 0
        THEN [item_rankings EXCEPT
                 ![i].val.title = item.title,
                 ![i].val.ranks = Append(@, item.rank),
                 ![i].val.platforms = Append(@, platform)]
        ELSE Append(item_rankings,
                    [key |-> title_key,
                     val |-> [title |-> item.title,
                              ranks |-> <<item.rank>>,
                              platforms |-> <<platform>>]])

\* one iteration of `for item in response.ranked_items` on item_rankings
FoldItem(item_rankings, platform, item) ==
    LET title_key == TitleKey(item.title)
        keys == DictKeys(item_rankings)
        Appended(i) ==
            [item_rankings EXCEPT
                ![i].val.ranks = Append(@, item.rank),
                ![i].val.platforms = Append(@, platform)]
    IN  IF ~HasKey(item_rankings, title_key)
        THEN LET i == FirstSameNormalized(keys, title_key)
             IN  IF i # 0
                 THEN Appended(i)
                 ELSE Append(item_rankings,
                             [key |-> title_key,
                              val |-> [title |-> item.title,
                                       ranks |-> <<item.rank>>,
                                       platforms |-> <<platform>>]])
        ELSE Appended(IndexOf(item_rankings, title_key))

RECURSIVE FoldItems(_, _, _)
FoldItems(item_rankings, platform, items) ==
    IF items = <<>> THEN item_rankings
    ELSE FoldItems(FoldItem(item_rankings, platform, Head(items)), platform, Tail(items))

\* one iteration of `for platform, response in results.items()`
FoldSource(item_rankings, platform, response) ==
    IF Truthy(response.error) THEN item_rankings
    ELSE FoldItems(item_rankings, platform, response.ranked_items)

RECURSIVE FoldSources(_, _)
FoldSources(item_rankings, results) ==
    IF results = <<>> THEN item_rankings
    ELSE FoldSources(FoldSource(item_rankings, results[1].key, results[1].val),
                     Tail(results))

RECURSIVE SumSeq(_)
SumSeq(s) == IF s = <<>> THEN 0 ELSE Head(s) + SumSeq(Tail(s))

\* round(total / n, 2) in hundredths; an exact half goes to the even
\* neighbour (it arises only for n a multiple of 8, where total / n is an
\* exact binary fraction)
Round2(total, n) ==
    LET q == (100 * total) \div n
        r == (100 * total) % n
    IN  IF 2 * r < n THEN q
        ELSE IF 2 * r > n THEN q + 1
        ELSE IF q % 2 = 0 THEN q ELSE q + 1

\* variant: appearances counts the distinct sources of an entry
RECURSIVE AveragesCountingSources(_, _)
AveragesCountingSources(item_rankings, average_rankings) ==
    IF item_rankings = <<>> THEN average_rankings
    ELSE LET data == item_rankings[1].val
         IN  AveragesCountingSources(
                 Tail(item_rankings),
                 DictPut(average_rankings, data.title,
                         [average_rank |-> Round2(SumSeq(data.ranks), Len(data.ranks)),
                          appearances |-> Cardinality(ToSet(data.platforms)),
                          platforms |-> data.platforms,
                          individual_ranks |-> data.ranks]))

\* the loop `for key, data in item_rankings.items()`
RECURSIVE Averages(_, _)
Averages(item_rankings, average_rankings) ==
    IF item_rankings = <<>> THEN average_rankings
    ELSE LET data == item_rankings[1].val
         IN  Averages(Tail(item_rankings),
                      DictPut(average_rankings, data.title,
                              [average_rank |-> Round2(SumSeq(data.ranks), Len(data.ranks)),
                               appearances |-> Len(data.ranks),
                               platforms |-> data.platforms,
                               individual_ranks |-> data.ranks]))

\* variant: the sort is not stable, a later record goes before its equals
RECURSIVE InsertSortedUnstable(_, _)
InsertSortedUnstable(sorted, e) ==
    IF sorted = <<>> THEN <<e>>
    ELSE IF sorted[Len(sorted)].val.average_rank < e.val.average_rank
         THEN Append(sorted, e)
         ELSE Append(InsertSortedUnstable(SubSeq(sorted, 1, Len(sorted) - 1), e),
                     sorted[Len(sorted)])

\* sorted(..., key=average_rank): stable insertion into a sorted prefix
RECURSIVE InsertSorted(_, _)
InsertSorted(sorted, e) ==
    IF sorted = <<>> THEN <<e>>
    ELSE IF sorted[Len(sorted)].val.average_rank <= e.val.average_rank
         THEN Append(sorted, e)
         ELSE Append(InsertSorted(SubSeq(sorted, 1, Len(sorted) - 1), e),
                     sorted[Len(sorted)])

RECURSIVE SortByAverage(_, _)
SortByAverage(sorted, rest) ==
    IF rest = <<>> THEN sorted
    ELSE SortByAverage(InsertSorted(sorted, Head(rest)), Tail(rest))

calculate_average_rankings(results) ==
    SortByAverage(<<>>, Averages(FoldSources(<<>>, results), <<>>))

(***************************************************************************)
(* KeywordRankTracker.compare_rankings                                     *)
(***************************************************************************)
\* variant: all_items is keyed by the item key alone
CompareItemExactKey(all_items, platform, item) ==
    LET item_key == TitleKey(item.title)
    IN  IF ~HasKey(all_items, item_key)
        THEN Append(all_items, [key |-> item_key, val |-> <<platform>>])
        ELSE [all_items EXCEPT ![IndexOf(all_items, item_key)].val = Append(@, platform)]

\* the all_items part of one iteration of `for item in response.ranked_items`
CompareItem(all_items, platform, item) ==
    LET item_key == TitleKey(item.title)
        i == FirstSameNormalized(DictKeys(all_items), item_key)
    IN  IF i # 0
        THEN [all_items EXCEPT ![i].val = Append(@, platform)]
        ELSE IF ~HasKey(all_items, item_key)
             THEN Append(all_items, [key |-> item_key, val |-> <<platform>>])
             ELSE [all_items EXCEPT ![IndexOf(all_items, item_key)].val = Append(@, platform)]

RECURSIVE CompareItems(_, _, _)
CompareItems(all_items, platform, items) ==
    IF items = <<>> THEN all_items
    ELSE CompareItems(CompareItem(all_items, platform, Head(items)), platform, Tail(items))

\* all_items after `for platform, response in results.items()`
RECURSIVE AllItems(_, _)
AllItems(all_items, results) ==
    IF results = <<>> THEN all_items
    ELSE LET response == results[1].val
         IN  AllItems(IF Truthy(response.error) THEN all_items
                      ELSE CompareItems(all_items, results[1].key, response.ranked_items),
                      Tail(results))

\* platform_items: the item keys of every source that is not skipped
RECURSIVE PlatformItems(_)
PlatformItems(results) ==
    IF results = <<>> THEN <<>>
    ELSE LET response == results[1].val
         IN  (IF Truthy(response.error) THEN <<>>
              ELSE << [key |-> results[1].key,
                       val |-> [i \in 1..Len(response.ranked_items) |->
                                   TitleKey(response.ranked_items[i].title)]] >>)
             \o PlatformItems(Tail(results))

\* comparison["common_items"]
CommonItems(results) ==
    LET all_items == AllItems(<<>>, results)
        common == SelectSeq(all_items, LAMBDA e : Len(e.val) > 1)
    IN  [i \in 1..Len(common) |->
            [item |-> common[i].key, platforms |-> common[i].val,
             count |-> Len(common[i].val)]]

\* variant: the occurrences are counted, not the distinct sources
UniqueOfCounting(all_items, items) ==
    SelectSeq(items,
              LAMBDA item :
                  LET i == FirstSameNormalized(DictKeys(all_items), item)
                      item_platforms == IF i = 0 THEN <<>> ELSE all_items[i].val
                  IN  Len(item_platforms) = 1)

\* the items of one source that pass `len(set(item_platforms)) == 1`
UniqueOf(all_items, items) ==
    SelectSeq(items,
              LAMBDA item :
                  LET i == FirstSameNormalized(DictKeys(all_items), item)
                      item_platforms == IF i = 0 THEN <<>> ELSE all_items[i].val
                  IN  Cardinality(ToSet(item_platforms)) = 1)

\* variant: a source is listed even when it has no unique item
UniqueItemsUnguarded(results) ==
    LET all_items == AllItems(<<>>, results)
        platform_items == PlatformItems(results)
    IN  [i \in 1..Len(platform_items) |->
            [key |-> platform_items[i].key,
             val |-> UniqueOf(all_items, platform_items[i].val)]]

\* comparison["unique_items"]: a source is listed only `if unique:`
UniqueItems(results) ==
    LET all_items == AllItems(<<>>, results)
        platform_items == PlatformItems(results)
        per == [i \in 1..Len(platform_items) |->
                   [key |-> platform_items[i].key,
                    val |-> UniqueOf(all_items, platform_items[i].val)]]
    IN  SelectSeq(per, LAMBDA e : e.val # <<>>)

\* comparison["summary"]: `if response.error:` gives f"Error: {response.error}"
\* (here the record [error |-> message]), any other source its counters
Summary(results) ==
    [i \in 1..Len(results) |->
        [key |-> results[i].key,
         val |-> IF Truthy(results[i].val.error)
                 THEN [error |-> results[i].val.error[1]]
                 ELSE [items_found |-> Len(results[i].val.ranked_items),
                       model |-> results[i].val.model,
                       cost |-> results[i].val.cost]]]

\* the summary and the three consensus views of compare_rankings
compare_rankings(results) ==
    [summary |-> Summary(results),
     common_items |-> CommonItems(results),
     unique_items |-> UniqueItems(results),
     average_rankings |-> calculate_average_rankings(results)]

(***************************************************************************)
(* MultiModelTracker.compare_models_within_platform                        *)
(***************************************************************************)
\* the first models of PLATFORM_MODELS["chatgpt"]
ChatGPTModels ==
    <<"gpt-4o-mini-2024-07-18", "gpt-4o-2024-11-20", "gpt-4-turbo-2024-04-09",
      "gpt-3.5-turbo-0125">>

\* comparison["model_performance"]
ModelPerformance(platform_results) ==
    [i \in 1..Len(platform_results) |->
        [key |-> platform_results[i].key,
         val |-> IF Truthy(platform_results[i].val.error)
                 THEN [status |-> "error", error |-> platform_results[i].val.error[1]]
                 ELSE [items_found |-> Len(platform_results[i].val.ranked_items),
                       cost |-> platform_results[i].val.cost,
                       tokens |-> <<platform_results[i].val.input_tokens,
                                    platform_results[i].val.output_tokens>>]]]

\* one iteration of `for item in response.ranked_items`: all_items is keyed
\* by normalize_title(item.title)
ModelItem(all_items, model, item) ==
    LET item_key == Normalized(item.title)
        with == IF ~HasKey(all_items, item_key)
                THEN Append(all_items,
                            [key |-> item_key,
                             val |-> [title |-> item.title, models |-> <<>>]])
                ELSE all_items
    IN  [with EXCEPT ![IndexOf(with, item_key)].val.models = Append(@, model)]

RECURSIVE ModelItems(_, _, _)
ModelItems(all_items, model, items) ==
    IF items = <<>> THEN all_items
    ELSE ModelItems(ModelItem(all_items, model, Head(items)), model, Tail(items))

\* all_items after `for model, response in platform_results.items()`
RECURSIVE ModelAllItems(_, _)
ModelAllItems(all_items, platform_results) ==
    IF platform_results = <<>> THEN all_items
    ELSE LET response == platform_results[1].val
         IN  ModelAllItems(IF Truthy(response.error) THEN all_items
                           ELSE ModelItems(all_items, platform_results[1].key,
                                           response.ranked_items),
                           Tail(platform_results))

\* agreement_score is the quotient num / den, kept as the two integers
ScoreLess(a, b) == a.num * b.den < b.num * a.den

\* sort(key=agreement_score, reverse=True): stable insertion into a prefix
\* sorted by decreasing score
RECURSIVE InsertByAgreement(_, _)
InsertByAgreement(sorted, e) ==
    IF sorted = <<>> THEN <<e>>
    ELSE IF ~ScoreLess(sorted[Len(sorted)].agreement_score, e.agreement_score)
         THEN Append(sorted, e)
         ELSE Append(InsertByAgreement(SubSeq(sorted, 1, Len(sorted) - 1), e),
                     sorted[Len(sorted)])

RECURSIVE SortByAgreement(_, _)
SortByAgreement(sorted, rest) ==
    IF rest = <<>> THEN sorted
    ELSE SortByAgreement(InsertByAgreement(sorted, Head(rest)), Tail(rest))

\* comparison["consensus_items"]: `if len(data["models"]) > 1`, then the sort
ConsensusItems(platform_results) ==
    LET all_items == ModelAllItems(<<>>, platform_results)
        several == SelectSeq(all_items, LAMBDA e : Len(e.val.models) > 1)
    IN  SortByAgreement(<<>>,
            [i \in 1..Len(several) |->
                [item |-> several[i].val.title,
                 models |-> several[i].val.models,
                 agreement_score |-> [num |-> Len(several[i].val.models),
                                      den |-> Len(platform_results)]]])

compare_models_within_platform(platform_results) ==
    [model_performance |-> ModelPerformance(platform_results),
     consensus_items |-> ConsensusItems(platform_results),
     model_specific_items |-> <<>>]

(***************************************************************************)
(* BaseLLMClient.extract_rankings: the strict pass, the fallback pass and  *)
(* the post-processing, with the regular expressions computed on the       *)
(* characters                                                              *)
(***************************************************************************)
NL == "\n"

\* \d
IsDigit(c) == c \in {"0", "1", "2", "3", "4", "5", "6", "7", "8", "9"}

DigitVal(c) ==
    CASE c = "0" -> 0 [] c = "1" -> 1 [] c = "2" -> 2 [] c = "3" -> 3
      [] c = "4" -> 4 [] c = "5" -> 5 [] c = "6" -> 6 [] c = "7" -> 7
      [] c = "8" -> 8 [] c = "9" -> 9

\* int(digits)
RECURSIVE ToInt(_)
ToInt(digits) ==
    IF digits = <<>> THEN 0
    ELSE 10 * ToInt(SubSeq(digits, 1, Len(digits) - 1)) + DigitVal(digits[Len(digits)])

\* text.split('\n'): the pieces between consecutive newlines
SplitLines(s) ==
    LET nl == {i \in 1..Len(s) : s[i] = NL}
        n == Cardinality(nl)
        \* position of the k-th newline, with the two ends of s as sentinels
        pos(k) == IF k = 0 THEN 0
                  ELSE IF k = n + 1 THEN Len(s) + 1
                  ELSE CHOOSE i \in nl : Cardinality({j \in nl : j <= i}) = k
    IN  [k \in 1..(n + 1) |-> SubSeq(s, pos(k - 1) + 1, pos(k) - 1)]

\* '\n'.join(ls)
RECURSIVE JoinLines(_)
JoinLines(ls) ==
    IF ls = <<>> THEN <<>>
    ELSE IF Len(ls) = 1 THEN ls[1]
    ELSE ls[1] \o <<NL>> \o JoinLines(Tail(ls))

\* re.sub of single characters by ''
RemoveChars(s, cs) == SelectSeq(s, LAMBDA c : c \notin cs)

\* number of leading digits: the greedy (\d+)
LeadingDigits(s) ==
    LET stops == {i \in 1..Len(s) : ~IsDigit(s[i])}
    IN  IF stops = {} THEN Len(s) ELSE (CHOOSE i \in stops : \A j \in stops : i <= j) - 1

\* index of the first non-blank character at or after i, Len(s) + 1 if none
SkipSpaces(s, i) ==
    LET stops == {k \in i..Len(s) : ~IsSpace(s[k])}
    IN  IF stops = {} THEN Len(s) + 1 ELSE CHOOSE k \in stops : \A j \in stops : k <= j

\* index of the last character of the run of non-blank characters that
\* holds position i: the greedy [^\s]+
RunEnd(s, i) ==
    LET stops == {k \in i..Len(s) : IsSpace(s[k])}
    IN  IF stops = {} THEN Len(s) ELSE (CHOOSE k \in stops : \A j \in stops : k <= j) - 1

Http == <<"h", "t", "t", "p", ":", "/", "/">>
Https == <<"h", "t", "t", "p", "s", ":", "/", "/">>

StartsWithAt(s, i, w) == i + Len(w) - 1 <= Len(s) /\ SubSeq(s, i, i + Len(w) - 1) = w

\* https?://[^\s]+ matches at position i
IsUrlAt(s, i) ==
    \/ StartsWithAt(s, i, Http) /\ i + Len(Http) <= Len(s) /\ ~IsSpace(s[i + Len(Http)])
    \/ StartsWithAt(s, i, Https) /\ i + Len(Https) <= Len(s) /\ ~IsSpace(s[i + Len(Https)])

\* \s*-\s*(https?://[^\s]+)$ matches from position k: the start of the URL,
\* 0 if there is no match
UrlTailStart(s, k) ==
    LET a == SkipSpaces(s, k)
        b == SkipSpaces(s, a + 1)
    IN  IF /\ a <= Len(s)
           /\ s[a] = "-"
           /\ b <= Len(s)
           /\ IsUrlAt(s, b)
           /\ RunEnd(s, b) = Len(s)
        THEN b ELSE 0

\* re.search(r'(.+?)\s*-\s*(https?://[^\s]+)$', s): the lengths the lazy
\* group 1 can take
UrlTailSplits(s) == {n \in 1..(Len(s) - 1) : UrlTailStart(s, n + 1) # 0}

\* re.search(r'(https?://[^\s]+)', s): start of the first URL, 0 if none
FirstUrl(s) ==
    LET hits == {i \in 1..Len(s) : IsUrlAt(s, i)}
    IN  IF hits = {} THEN 0 ELSE CHOOSE i \in hits : \A j \in hits : i <= j

\* re.sub(r'\s*(https?://[^\s]+)\s*', '', s) from position i
RECURSIVE RemoveUrlsAt(_, _)
RemoveUrlsAt(s, i) ==
    IF i > Len(s) THEN <<>>
    ELSE LET a == SkipSpaces(s, i)
         IN  IF a <= Len(s) /\ IsUrlAt(s, a)
             THEN RemoveUrlsAt(s, SkipSpaces(s, RunEnd(s, a) + 1))
             ELSE <<s[i]>> \o RemoveUrlsAt(s, i + 1)

RemoveUrls(s) == RemoveUrlsAt(s, 1)

reject_patterns ==
    << <<"f", "e", "a", "t", "u", "r", "e", "s">>,
       <<"i", "n", "c", "l", "u", "d", "e", "s">>,
       <<"m", "a", "d", "e", " ", "f", "r", "o", "m">>,
       <<"e", "q", "u", "i", "p", "p", "e", "d", " ", "w", "i", "t", "h">>,
       <<"a", "v", "a", "i", "l", "a", "b", "l", "e", " ", "i", "n">>,
       <<"c", "o", "m", "e", "s", " ", "w", "i", "t", "h">>,
       <<"d", "e", "s", "i", "g", "n", "e", "d">>,
       <<"k", "e", "y", " ", "f", "e", "a", "t", "u", "r", "e", "s">> >>

\* variant: only the length is tested
is_likely_product_name_LengthOnly(s) == 3 <= Len(s) /\ Len(s) <= 100

\* self._is_likely_product_name(text)
is_likely_product_name(s) ==
    /\ Len(s) >= 3
    /\ \A p \in 1..Len(reject_patterns) : ~StartsWith(Lower(s), reject_patterns[p])
    /\ Len(s) <= 100

\* the title and the source URL the strict pass reads in item_text
TitleAndUrl(item_text) ==
    LET splits == UrlTailSplits(item_text)
        n == CHOOSE k \in splits : \A j \in splits : k <= j
        u == FirstUrl(item_text)
    IN  IF splits # {}
        THEN [title |-> Strip(SubSeq(item_text, 1, n)),
              source |-> Some(Strip(SubSeq(item_text, UrlTailStart(item_text, n + 1),
                                           Len(item_text))))]
        ELSE IF u # 0
        THEN [title |-> Strip(RemoveUrls(item_text)),
              source |-> Some(SubSeq(item_text, u, RunEnd(item_text, u)))]
        ELSE [title |-> item_text, source |-> None]

\* the body of the strict loop for one line: the entities it appends
StrictLine(raw) ==
    LET line == Strip(raw)
        d == LeadingDigits(line)
        \* group(2) of ^(\d+)[\.\)]\s*(.+)
        rest == SubSeq(line, SkipSpaces(line, d + 2), Len(line))
        item_text == Strip(RemoveChars(RemoveChars(Strip(rest), {"*"}), {"[", "]"}))
        found == TitleAndUrl(item_text)
    IN  IF line = <<>> THEN <<>>
        ELSE IF d = 0 \/ d >= Len(line) THEN <<>>
        ELSE IF line[d + 1] \notin {".", ")"} \/ rest = <<>> THEN <<>>
        ELSE IF is_likely_product_name(found.title)
             THEN << [RankResult(ToInt(SubSeq(line, 1, d)), found.title)
                         EXCEPT !.source = found.source] >>
             ELSE <<>>

\* re.search(r'\*\*([^\*]+)\*\*', s): the positions where the pattern
\* matches, with the end of the greedy group 1
BoldEnd(s, i) ==
    LET stops == {k \in (i + 2)..Len(s) : s[k] = "*"}
    IN  IF stops = {} THEN Len(s) ELSE (CHOOSE k \in stops : \A j \in stops : k <= j) - 1

IsBoldAt(s, i) ==
    /\ StartsWithAt(s, i, <<"*", "*">>)
    /\ i + 2 <= Len(s)
    /\ s[i + 2] # "*"
    /\ StartsWithAt(s, BoldEnd(s, i) + 1, <<"*", "*">>)

\* the body of the fallback loop for one line: the title and URL of the
\* entity it appends, if any
FallbackLine(raw) ==
    LET line == Strip(raw)
        hits == {i \in 1..Len(line) : IsBoldAt(line, i)}
        i == CHOOSE k \in hits : \A j \in hits : k <= j
        title == Strip(SubSeq(line, i + 2, BoldEnd(line, i)))
        u == FirstUrl(line)
    IN  IF hits = {} THEN <<>>
        ELSE IF is_likely_product_name(title)
             THEN << [title |-> title,
                      source |-> IF u = 0 THEN None
                                 ELSE Some(SubSeq(line, u, RunEnd(line, u)))] >>
             ELSE <<>>

\* the lines the response texts of the model are made of
\* '1. Fellow Atmos Vacuum Canister - https://fellowproducts.com/atmos'
lFellowUrl ==
    <<"1", ".", " ", "F", "e", "l", "l", "o", "w", " ", "A", "t", "m", "o",
       "s", " ", "V", "a", "c", "u", "u", "m", " ", "C", "a", "n", "i", "s",
       "t", "e", "r", " ", "-", " ", "h", "t", "t", "p", "s", ":", "/", "/",
       "f", "e", "l", "l", "o", "w", "p", "r", "o", "d", "u", "c", "t", "s",
       ".", "c", "o", "m", "/", "a", "t", "m", "o", "s">>

\* '2. Coffee Gator Container'
lGatorContainer ==
    <<"2", ".", " ", "C", "o", "f", "f", "e", "e", " ", "G", "a", "t", "o",
       "r", " ", "C", "o", "n", "t", "a", "i", "n", "e", "r">>

\* '3. Key features include durability and style'
lKeyFeatures ==
    <<"3", ".", " ", "K", "e", "y", " ", "f", "e", "a", "t", "u", "r", "e",
       "s", " ", "i", "n", "c", "l", "u", "d", "e", " ", "d", "u", "r", "a",
       "b", "i", "l", "i", "t", "y", " ", "a", "n", "d", " ", "s", "t", "y",
       "l", "e">>

\* '5) [coffee gator container]'
lBracketLower ==
    <<"5", ")", " ", "[", "c", "o", "f", "f", "e", "e", " ", "g", "a", "t",
       "o", "r", " ", "c", "o", "n", "t", "a", "i", "n", "e", "r", "]">>

\* '7. **OXO POP** https://oxo.com/pop'
lStandaloneUrl ==
    <<"7", ".", " ", "*", "*", "O", "X", "O", " ", "P", "O", "P", "*", "*",
       " ", "h", "t", "t", "p", "s", ":", "/", "/", "o", "x", "o", ".", "c",
       "o", "m", "/", "p", "o", "p">>

\* 'Here are picks:'
lHere ==
    <<"H", "e", "r", "e", " ", "a", "r", "e", " ", "p", "i", "c", "k", "s",
       ":">>

\* '**Fellow Atmos**'
lBoldFellow ==
    <<"*", "*", "F", "e", "l", "l", "o", "w", " ", "A", "t", "m", "o", "s",
       "*", "*">>

\* '**Coffee Gator**'
lBoldGator ==
    <<"*", "*", "C", "o", "f", "f", "e", "e", " ", "G", "a", "t", "o", "r",
       "*", "*">>

\* '**OXO POP**'
lBoldOXO ==
    <<"*", "*", "O", "X", "O", " ", "P", "O", "P", "*", "*">>

\* ' **coffee gator ** - Stainless steel'
lBoldGatorLower ==
    <<" ", "*", "*", "c", "o", "f", "f", "e", "e", " ", "g", "a", "t", "o",
       "r", " ", "*", "*", " ", "-", " ", "S", "t", "a", "i", "n", "l", "e",
       "s", "s", " ", "s", "t", "e", "e", "l">>

\* '**Features** include a lid'
lBoldFeatures ==
    <<"*", "*", "F", "e", "a", "t", "u", "r", "e", "s", "*", "*", " ", "i",
       "n", "c", "l", "u", "d", "e", " ", "a", " ", "l", "i", "d">>

\* a numbered line whose title has 101 characters
lTooLong == <<"9", ".", " ">> \o [i \in 1..101 |-> "x"]

LinePool ==
    {lFellowUrl, lGatorContainer, lKeyFeatures, lBracketLower, lStandaloneUrl,
     lHere, lBoldFellow, lBoldGator, lBoldOXO, lBoldGatorLower, lBoldFeatures,
     lTooLong}

\* the two line bodies tabulated once over the lines of the model
StrictTable == [l \in LinePool \cup {<<>>} |-> StrictLine(l)]

FallbackTable == [l \in LinePool \cup {<<>>} |-> FallbackLine(l)]

StrictOf(line) ==
    IF line \in DOMAIN StrictTable THEN StrictTable[line] ELSE StrictLine(line)

FallbackOf(line) ==
    IF line \in DOMAIN FallbackTable THEN FallbackTable[line] ELSE FallbackLine(line)

\* variant: a hit of the fallback pass goes to the front of the list
RECURSIVE FallbackLoopPrepending(_, _)
FallbackLoopPrepending(ranked, ls) ==
    IF ls = <<>> THEN ranked
    ELSE LET hit == FallbackOf(Head(ls))
         IN  FallbackLoopPrepending(
                 IF hit = <<>> THEN ranked
                 ELSE <<[RankResult(Len(ranked) + 1, hit[1].title)
                            EXCEPT !.source = hit[1].source]>> \o ranked,
                 Tail(ls))

\* the loop of _fallback_extraction over the lines that are left
RECURSIVE FallbackLoop(_, _)
FallbackLoop(ranked, ls) ==
    IF ls = <<>> THEN ranked
    ELSE LET hit == FallbackOf(Head(ls))
         IN  FallbackLoop(IF hit = <<>> THEN ranked
                          ELSE Append(ranked,
                                      [RankResult(Len(ranked) + 1, hit[1].title)
                                          EXCEPT !.source = hit[1].source]),
                          Tail(ls))

\* self._fallback_extraction(text)
fallback_extraction(s) == FallbackLoop(<<>>, SplitLines(s))

\* variant: the entities are counted after deduplication
NeedsFallbackAfterDedup(ranked) ==
    Cardinality({TitleKey(ranked[i].title) : i \in 1..Len(ranked)}) < 3

\* `if len(ranked_items) < 3`
NeedsFallback(ranked) == Len(ranked) < 3

\* variant: the key of the deduplication keeps the case
DedupItemExactCase(seen, unique, item) ==
    LET title_key == Strip(item.title)
    IN  IF title_key \notin seen
        THEN [seen |-> seen \cup {title_key}, unique |-> Append(unique, item)]
        ELSE [seen |-> seen, unique |-> unique]

\* variant: a kept entity goes to the front of unique_items
DedupItemPrepending(seen, unique, item) ==
    LET title_key == Strip(Lower(item.title))
    IN  IF title_key \notin seen
        THEN [seen |-> seen \cup {title_key}, unique |-> <<item>> \o unique]
        ELSE [seen |-> seen, unique |-> unique]

\* one iteration of `for item in ranked_items` of the deduplication
DedupItem(seen, unique, item) ==
    LET title_key == Strip(Lower(item.title))
    IN  IF title_key \notin seen
        THEN [seen |-> seen \cup {title_key}, unique |-> Append(unique, item)]
        ELSE [seen |-> seen, unique |-> unique]

RECURSIVE DedupLoop(_, _, _)
DedupLoop(seen, unique, items) ==
    IF items = <<>> THEN unique
    ELSE LET step == DedupItem(seen, unique, Head(items))
         IN  DedupLoop(step.seen, step.unique, Tail(items))

\* variant: the rank read in the text is kept
RenumberKeepingRank(unique) == unique

\* for i, item in enumerate(unique_items, 1): item.rank = i
Renumber(unique) == [i \in 1..Len(unique) |-> [unique[i] EXCEPT !.rank = i]]

\* the post-processing of extract_rankings: deduplicate, then renumber
PostProcess(items) == Renumber(DedupLoop({}, <<>>, items))

(***************************************************************************)
(* The fan-out: KeywordRankTracker.__init__ and query_all_platforms        *)
(***************************************************************************)
VARIABLES
    clients,          \* self.clients: the registered platform ids, in dict order
    gateway,          \* what the Source Query Gateway does for each client
    results_history,  \* self.results_history
    pc,               \* where query_all_platforms is
    platforms,        \* the platforms argument (after the None default)
    parallel,         \* the parallel argument
    results,          \* the local dict results
    futures,          \* future_to_platform, in submission order
    yielded,          \* the futures as_completed has already yielded
    idx,              \* the position of the sequential loop
    calls,            \* number of gateway invocations per client in this fan-out
    raised,           \* the exception query_all_platforms raised, if any
    model_mapping     \* tracker_cli --models: the model given for each platform
                      \* whose query was replaced, empty without the option

fanVars == <<clients, gateway, results_history, pc, platforms, parallel,
             results, futures, yielded, idx, calls, raised, model_mapping>>

\* calculate_average_rankings(results), one loop iteration at a time
VARIABLES
    agg_results,       \* the results argument
    agg_pc,            \* where calculate_average_rankings is
    src,               \* position of `for platform, response in results.items()`
    itm,               \* position of `for item in response.ranked_items`
    item_rankings,     \* the running table
    average_rankings   \* the returned dict, once computed

aggVars == <<agg_results, agg_pc, src, itm, item_rankings, average_rankings>>

\* extract_rankings(text), one loop iteration at a time
VARIABLES
    text,            \* the text argument
    ext_pc,          \* where extract_rankings is
    lines,           \* text.split('\n')
    line_no,         \* position of `for line in lines` of the strict pass
    ranked_items,    \* the local list ranked_items
    strict_items,    \* what the strict pass had accepted when its loop ended
    used_fallback,   \* whether _fallback_extraction was called
    seen_titles,     \* the local set seen_titles
    unique_items,    \* the local list unique_items, returned at the end
    item_no          \* position of `for item in ranked_items`

extVars == <<text, ext_pc, lines, line_no, ranked_items, strict_items,
             used_fallback, seen_titles, unique_items, item_no>>

\* normalize_title and find_similar_items applied to titles
VARIABLES
    title_a,         \* the title argument
    title_b,         \* the other title (the only key of items_dict)
    stop_order,      \* the order in which the stop words are removed
    tt_pc,           \* which function is applied, and whether it has returned
    normalized_key,  \* normalize_title(title_a)
    reordered_key,   \* the same with the words removed in stop_order
    similar_ab,      \* find_similar_items(title_a, {title_b: ...})
    similar_ba       \* find_similar_items(title_b, {title_a: ...})

titleVars == <<title_a, title_b, stop_order, tt_pc, normalized_key,
               reordered_key, similar_ab, similar_ba>>

\* compare_models_within_platform(platform_results)
VARIABLES
    platform_results,  \* the argument: model name -> PlatformResponse
    mm_pc,             \* whether compare_models_within_platform has returned
    comparison         \* the returned dict

modelVars == <<platform_results, mm_pc, comparison>>

\* bounds of the exploration
MaxPlatforms == 3
MaxCalls == 2

Registered == <<"chatgpt", "perplexity", "gemini">>
\* the identifiers a caller may pass: the registered ones and one that is not
PlatformIds == ToSet(Registered) \cup {"claude"}

\* the platforms arguments: lists of distinct identifiers (spec 4.5: a set
\* of source identifiers), the empty list included
PlatformLists ==
    {l \in UNION {[1..n -> PlatformIds] : n \in 0..MaxPlatforms} :
        \A i, j \in 1..Len(l) : i # j => l[i] # l[j]}

\* the platforms argument: None or a list
PlatformArgs ==
    {[none |-> TRUE, list |-> <<>>]} \cup {[none |-> FALSE, list |-> l] : l \in PlatformLists}


\* gateway outcomes: the call yields text from which ranked_items are
\* extracted; the call fails inside the client's try block; or query itself
\* raises (e.g. a replaced query method that rejects the web_search keyword)
GatewayOutcomes ==
    { [kind |-> "text", items |-> <<RankResult(1, tCoffeeGator), RankResult(2, tAirscape)>>,
       msg |-> ""],
      [kind |-> "text", items |-> <<RankResult(1, tCoffeeGatorCanister), RankResult(2, tOXOContainer)>>,
       msg |-> ""],
      [kind |-> "text", items |-> <<>>, msg |-> ""],
      [kind |-> "fail", items |-> <<>>, msg |-> "timeout"],
      [kind |-> "raise", items |-> <<>>, msg |-> "boom"],
      [kind |-> "raise", items |-> <<>>, msg |-> ""] }

\* PlatformResponse.platform as each client sets it
ClientName(platform) ==
    CASE platform = "chatgpt" -> "ChatGPT"
      [] platform = "perplexity" -> "Perplexity"
      [] platform = "gemini" -> "Gemini"

\* the model each client falls back to when model_name is None
DefaultModel(platform) ==
    CASE platform = "chatgpt" -> "gpt-4o-mini-2024-07-18"
      [] platform = "perplexity" -> "sonar"
      [] platform = "gemini" -> "gemini-2.5-flash"

\* usage counters of a successful payload
PayloadInputTokens == 100
PayloadOutputTokens == 200
PayloadCost == 1

\* clients[platform].query(keyword, web_search=web_search): a returned
\* PlatformResponse, or the exception that escapes query
Query(platform, outcome) ==
    CASE outcome.kind = "text" ->
             [tag |-> "value",
              resp |-> PlatformResponse(ClientName(platform), DefaultModel(platform),
                                        outcome.items, PayloadInputTokens,
                                        PayloadOutputTokens, PayloadCost, None)]
      [] outcome.kind = "fail" ->
             [tag |-> "value",
              resp |-> PlatformResponse(ClientName(platform), DefaultModel(platform),
                                        <<>>, 0, 0, 0, Some(outcome.msg))]
      [] outcome.kind = "raise" ->
             [tag |-> "exc", msg |-> outcome.msg]

\* variant: the message of the exception is lost
ErrorResponseNoMessage(platform, msg) ==
    PlatformResponse(platform, "", <<>>, 0, 0, 0, None)

\* the PlatformResponse built in `except Exception as e`
ErrorResponse(platform, msg) ==
    PlatformResponse(platform, "", <<>>, 0, 0, 0, Some(msg))

\* the parameters of the lambda tracker_cli puts in clients[platform].query:
\* lambda k, m=model, ws=..., mt=800, oq=original_query: oq(k, model_name=m, ...)
OverrideParams == {"k", "m", "ws", "mt", "oq"}

\* the keyword arguments of `.query(keyword, web_search=web_search)`
CallKeywords == {"web_search"}

\* `if platform in tracker.clients`: the query of this client was replaced
Overridden(platform) == HasKey(model_mapping, platform)

\* whether a call of clients[platform].query gets to the client's own query
ReachesGateway(platform) ==
    ~Overridden(platform) \/ CallKeywords \subseteq OverrideParams

\* the client's own query called with model_name given
QueryAs(platform, outcome, model_name) ==
    LET q == Query(platform, outcome)
    IN  IF q.tag = "value" THEN [q EXCEPT !.resp.model = model_name] ELSE q

\* clients[platform].query(keyword, web_search=web_search) as
\* query_all_platforms calls it: the client's own query, or the lambda, which
\* raises TypeError when it is passed a keyword it has no parameter for
ClientQuery(platform) ==
    IF ~Overridden(platform)
    THEN Query(platform, gateway[platform])
    ELSE IF CallKeywords \subseteq OverrideParams
         THEN QueryAs(platform, gateway[platform], DictGet(model_mapping, platform))
         ELSE [tag |-> "exc",
               msg |-> "main.<locals>.<lambda>() got an unexpected keyword argument 'web_search'"]

\* variant: an exception of one source discards what the siblings stored
StoreAborting(res, platform, q) ==
    IF q.tag = "value"
    THEN DictPut(res, platform, q.resp)
    ELSE <<[key |-> platform, val |-> ErrorResponse(platform, q.msg)]>>

\* try: results[platform] = <result> except Exception as e: results[platform] = ...
Store(res, platform, q) ==
    IF q.tag = "value"
    THEN DictPut(res, platform, q.resp)
    ELSE DictPut(res, platform, ErrorResponse(platform, q.msg))

\* variant: a failed call is tried once more
InvokeRetrying(c, platform) ==
    [c EXCEPT ![platform] = @ + (IF gateway[platform].kind = "text" THEN 1 ELSE 2)]

\* the gateway is invoked once by a call of query
Invoke(c, platform) == [c EXCEPT ![platform] = @ + 1]

IsRegistered(platform) == platform \in ToSet(clients)

\* [platform for platform in platforms if platform in self.clients]
RequestedRegistered(l) == SelectSeq(l, IsRegistered)

NoCalls == [p \in ToSet(Registered) |-> 0]

\* the body of `for platform in platforms` on the results dict
SeqBody(res, platform) ==
    IF IsRegistered(platform)
    THEN Store(res, platform, ClientQuery(platform))
    ELSE res

\* no aggregation is running
AggIdle ==
    /\ agg_results = <<>>
    /\ agg_pc = "idle"
    /\ src = 1
    /\ itm = 1
    /\ item_rankings = <<>>
    /\ average_rankings = <<>>

\* no title function is applied
TitlesIdle ==
    /\ title_a = <<>>
    /\ title_b = <<>>
    /\ stop_order = <<>>
    /\ tt_pc = "idle"
    /\ normalized_key = <<>>
    /\ reordered_key = <<>>
    /\ similar_ab = <<>>
    /\ similar_ba = <<>>

\* no model comparison is running
ModelsIdle ==
    /\ platform_results = <<>>
    /\ mm_pc = "idle"
    /\ comparison = <<>>

\* no extraction is running
ExtIdle ==
    /\ text = <<>>
    /\ ext_pc = "idle"
    /\ lines = <<>>
    /\ line_no = 1
    /\ ranked_items = <<>>
    /\ strict_items = <<>>
    /\ used_fallback = FALSE
    /\ seen_titles = {}
    /\ unique_items = <<>>
    /\ item_no = 1

Init ==
    /\ clients = Registered
    /\ gateway \in [ToSet(Registered) -> GatewayOutcomes]
    /\ results_history = <<>>
    /\ pc = "idle"
    /\ platforms = <<>>
    /\ parallel = FALSE
    /\ results = <<>>
    /\ futures = <<>>
    /\ yielded = {}
    /\ idx = 0
    /\ calls = NoCalls
    /\ raised = None
    /\ model_mapping = <<>>
    /\ AggIdle
    /\ ExtIdle
    /\ TitlesIdle
    /\ ModelsIdle

\* variant: the results dict is shared between calls
StaleResults == results

\* results = {}
FreshResults == <<>>

\* entry of query_all_platforms up to the start of the loop
Start ==
    /\ pc = "idle"
    /\ \E arg \in PlatformArgs, par \in BOOLEAN :
        \* if platforms is None: platforms = list(self.clients.keys())
        LET l == IF arg.none THEN clients ELSE arg.list
        IN  /\ platforms' = l
            /\ parallel' = par
            /\ results' = FreshResults
            /\ calls' = NoCalls
            /\ yielded' = {}
            /\ IF par
               THEN IF Len(l) = 0
                    THEN \* ThreadPoolExecutor(max_workers=0) raises ValueError
                         /\ pc' = "raised"
                         /\ raised' = Some("max_workers must be greater than 0")
                         /\ futures' = <<>>
                         /\ idx' = 0
                    ELSE /\ pc' = "parallel"
                         /\ raised' = None
                         /\ futures' = [i \in 1..Len(RequestedRegistered(l)) |->
                                           [platform |-> RequestedRegistered(l)[i],
                                            state |-> "pending",
                                            result |-> None]]
                         /\ idx' = 0
               ELSE /\ pc' = "sequential"
                    /\ raised' = None
                    /\ futures' = <<>>
                    /\ idx' = 1
    /\ UNCHANGED <<clients, gateway, results_history>>
    /\ UNCHANGED model_mapping
    /\ UNCHANGED aggVars
    /\ UNCHANGED extVars
    /\ UNCHANGED titleVars
    /\ UNCHANGED modelVars

\* a worker thread runs clients[platform].query for one future
RunTask ==
    /\ pc = "parallel"
    /\ \E f \in 1..Len(futures) :
        /\ futures[f].state = "pending"
        /\ futures' = [futures EXCEPT
                          ![f].state = "finished",
                          ![f].result = ClientQuery(futures[f].platform)]
        /\ calls' = IF ReachesGateway(futures[f].platform)
                    THEN Invoke(calls, futures[f].platform)
                    ELSE calls
    /\ UNCHANGED <<clients, gateway, results_history, pc, platforms, parallel,
                   results, yielded, idx, raised>>
    /\ UNCHANGED model_mapping
    /\ UNCHANGED aggVars
    /\ UNCHANGED extVars
    /\ UNCHANGED titleVars
    /\ UNCHANGED modelVars

\* one iteration of `for future in as_completed(future_to_platform)`
Collect ==
    /\ pc = "parallel"
    /\ \E f \in 1..Len(futures) :
        /\ futures[f].state = "finished"
        /\ f \notin yielded
        /\ yielded' = yielded \cup {f}
        /\ results' = Store(results, futures[f].platform, futures[f].result)
    /\ UNCHANGED <<clients, gateway, results_history, pc, platforms, parallel,
                   futures, idx, calls, raised>>
    /\ UNCHANGED model_mapping
    /\ UNCHANGED aggVars
    /\ UNCHANGED extVars
    /\ UNCHANGED titleVars
    /\ UNCHANGED modelVars

\* one iteration of `for platform in platforms` of the sequential branch
SeqStep ==
    /\ pc = "sequential"
    /\ idx <= Len(platforms)
    /\ LET platform == platforms[idx]
       IN  /\ results' = SeqBody(results, platform)
           /\ calls' = IF IsRegistered(platform) /\ ReachesGateway(platform)
                       THEN Invoke(calls, platform)
                       ELSE calls
    /\ idx' = idx + 1
    /\ UNCHANGED <<clients, gateway, results_history, pc, platforms, parallel,
                   futures, yielded, raised>>
    /\ UNCHANGED model_mapping
    /\ UNCHANGED aggVars
    /\ UNCHANGED extVars
    /\ UNCHANGED titleVars
    /\ UNCHANGED modelVars

\* self.results_history.append({...}); return results
Return ==
    /\ \/ pc = "parallel" /\ yielded = 1..Len(futures)
       \/ pc = "sequential" /\ idx > Len(platforms)
    /\ results_history' = Append(results_history,
                                 [keyword |-> "best coffee jar", results |-> results])
    /\ pc' = "returned"
    /\ UNCHANGED <<clients, gateway, platforms, parallel, results, futures,
                   yielded, idx, calls, raised>>
    /\ UNCHANGED model_mapping
    /\ UNCHANGED aggVars
    /\ UNCHANGED extVars
    /\ UNCHANGED titleVars
    /\ UNCHANGED modelVars

\* the caller uses the same tracker for another query
Again ==
    /\ pc \in {"returned", "raised"}
    /\ Len(results_history) < MaxCalls
    /\ pc' = "idle"
    /\ UNCHANGED <<clients, gateway, results_history, platforms, parallel,
                   results, futures, yielded, idx, calls, raised>>
    /\ UNCHANGED model_mapping
    /\ UNCHANGED aggVars
    /\ UNCHANGED extVars
    /\ UNCHANGED titleVars
    /\ UNCHANGED modelVars

vars == <<fanVars, aggVars, extVars, titleVars, modelVars>>

Next == Start \/ RunTask \/ Collect \/ SeqStep \/ Return

Spec == Init /\ [][Next]_vars

\* one tracker used for several queries, against two fixed gateway stubs
CallsGateways ==
    { [p \in ToSet(Registered) |->
          CASE p = "chatgpt" -> [kind |-> "text",
                                 items |-> <<RankResult(1, tCoffeeGator), RankResult(2, tAirscape)>>,
                                 msg |-> ""]
            [] p = "perplexity" -> [kind |-> "raise", items |-> <<>>, msg |-> "boom"]
            [] p = "gemini" -> [kind |-> "fail", items |-> <<>>, msg |-> "timeout"]],
      [p \in ToSet(Registered) |->
          CASE p = "chatgpt" -> [kind |-> "fail", items |-> <<>>, msg |-> "timeout"]
            [] p = "perplexity" -> [kind |-> "text",
                                    items |-> <<RankResult(1, tCoffeeGatorCanister), RankResult(2, tOXOContainer)>>,
                                    msg |-> ""]
            [] p = "gemini" -> [kind |-> "text", items |-> <<>>, msg |-> ""]] }

InitCalls == Init /\ gateway \in CallsGateways

NextCalls == Next \/ Again

SpecCalls == InitCalls /\ [][NextCalls]_vars

\* tracker_cli run with --models: model_mapping as main builds it from the
\* three names of the option
CliModels ==
    { <<"gpt-4o-2024-11-20", "sonar-pro", "gemini-2.5-pro">>,
      <<"gpt-4o-mini-2024-07-18", "sonar", "gemini-2.5-flash">> }

ModelMappingOf(models) ==
    << [key |-> "chatgpt", val |-> models[1]],
       [key |-> "perplexity", val |-> models[2]],
       [key |-> "gemini", val |-> models[3]] >>

\* the tracker after main has replaced the query of its clients
InitCli ==
    /\ clients = Registered
    /\ gateway \in CallsGateways
    /\ results_history = <<>>
    /\ pc = "idle"
    /\ platforms = <<>>
    /\ parallel = FALSE
    /\ results = <<>>
    /\ futures = <<>>
    /\ yielded = {}
    /\ idx = 0
    /\ calls = NoCalls
    /\ raised = None
    /\ model_mapping \in {ModelMappingOf(m) : m \in CliModels}
    /\ AggIdle
    /\ ExtIdle
    /\ TitlesIdle
    /\ ModelsIdle

SpecCli == InitCli /\ [][Next]_vars

(***************************************************************************)
(* The aggregation, one loop iteration at a time                           *)
(***************************************************************************)
MaxSources == 2
MaxItems == 2


\* the titles the generated lists draw from: two with the same normalized
\* form and one that find_similar_items matches with Fellow Atmos
Titles == {tCoffeeGator, tCoffeeGatorCanister, tFellowAtmosVacuumCanister}

\* ranked_items as extract_rankings leaves them: ranks 1..K in list order
Ranked(titles) == [i \in 1..Len(titles) |-> RankResult(i, titles[i])]

\* the ranked lists of the two mock responses of test_average_rankings,
\* with and without their third, unmatched entity
TestListA == <<tAirscapeCoffeeCanister, tCoffeeGator, tOXOContainer>>
TestListB == <<tCoffeeGatorCanister, tAirscape, tFellowAtmos>>
TestLists == {TestListA, SubSeq(TestListA, 1, 2), TestListB, SubSeq(TestListB, 1, 2)}

\* lists of distinct titles, as the deduplication of extract_rankings leaves them
TitleLists ==
    {l \in UNION {[1..n -> Titles] : n \in 0..MaxItems} :
        \A i, j \in 1..Len(l) : i # j => l[i] # l[j]}
    \cup TestLists

\* the responses query_all_platforms can put under a key: a successful one,
\* or an errored one (with any message, the empty one included)
ResponsesFor(platform) ==
    {PlatformResponse(ClientName(platform), DefaultModel(platform), Ranked(l),
                      PayloadInputTokens, PayloadOutputTokens, PayloadCost, None)
        : l \in TitleLists}
    \cup {ErrorResponse(platform, m) : m \in {"timeout", ""}}

\* the results mappings with the first n registered sources as keys
RECURSIVE ResultsOver(_)
ResultsOver(n) ==
    IF n = 0 THEN {<<>>}
    ELSE {Append(r, [key |-> Registered[n], val |-> v]) :
              r \in ResultsOver(n - 1), v \in ResponsesFor(Registered[n])}

\* the results mappings handed to the aggregation
AggInputs == UNION {ResultsOver(n) : n \in 0..MaxSources}

InitAgg ==
    /\ clients = Registered
    /\ gateway = [p \in ToSet(Registered) |->
                     [kind |-> "fail", items |-> <<>>, msg |-> "timeout"]]
    /\ results_history = <<>>
    /\ pc = "idle"
    /\ platforms = <<>>
    /\ parallel = FALSE
    /\ results = <<>>
    /\ futures = <<>>
    /\ yielded = {}
    /\ idx = 0
    /\ calls = NoCalls
    /\ raised = None
    /\ model_mapping = <<>>
    /\ TitlesIdle
    /\ ModelsIdle
    /\ agg_results \in AggInputs
    /\ agg_pc = "fold"
    /\ src = 1
    /\ itm = 1
    /\ item_rankings = <<>>
    /\ average_rankings = <<>>
    /\ ExtIdle

\* `if response.error: continue`, or the inner loop is exhausted
NextSource ==
    /\ agg_pc = "fold"
    /\ src <= Len(agg_results)
    /\ \/ Truthy(agg_results[src].val.error)
       \/ itm > Len(agg_results[src].val.ranked_items)
    /\ src' = src + 1
    /\ itm' = 1
    /\ UNCHANGED <<agg_results, agg_pc, item_rankings, average_rankings>>
    /\ UNCHANGED fanVars
    /\ UNCHANGED extVars
    /\ UNCHANGED titleVars
    /\ UNCHANGED modelVars

\* one iteration of `for item in response.ranked_items`
FoldStep ==
    /\ agg_pc = "fold"
    /\ src <= Len(agg_results)
    /\ ~Truthy(agg_results[src].val.error)
    /\ itm <= Len(agg_results[src].val.ranked_items)
    /\ item_rankings' = FoldItem(item_rankings, agg_results[src].key,
                                 agg_results[src].val.ranked_items[itm])
    /\ itm' = itm + 1
    /\ UNCHANGED <<agg_results, agg_pc, src, average_rankings>>
    /\ UNCHANGED fanVars
    /\ UNCHANGED extVars
    /\ UNCHANGED titleVars
    /\ UNCHANGED modelVars

\* the averages, the sort and the return
Finish ==
    /\ agg_pc = "fold"
    /\ src > Len(agg_results)
    /\ average_rankings' = SortByAverage(<<>>, Averages(item_rankings, <<>>))
    /\ agg_pc' = "done"
    /\ UNCHANGED <<agg_results, src, itm, item_rankings>>
    /\ UNCHANGED fanVars
    /\ UNCHANGED extVars
    /\ UNCHANGED titleVars
    /\ UNCHANGED modelVars

NextAgg == NextSource \/ FoldStep \/ Finish

SpecAgg == InitAgg /\ [][NextAgg]_vars

(***************************************************************************)
(* The extraction, one loop iteration at a time                            *)
(***************************************************************************)
MaxLines == 3

\* the response texts: up to MaxLines lines of the pool
Texts == {JoinLines(ls) : ls \in UNION {[1..n -> LinePool] : n \in 0..MaxLines}}

InitExtract ==
    /\ clients = Registered
    /\ gateway = [p \in ToSet(Registered) |->
                     [kind |-> "fail", items |-> <<>>, msg |-> "timeout"]]
    /\ results_history = <<>>
    /\ pc = "idle"
    /\ platforms = <<>>
    /\ parallel = FALSE
    /\ results = <<>>
    /\ futures = <<>>
    /\ yielded = {}
    /\ idx = 0
    /\ calls = NoCalls
    /\ raised = None
    /\ model_mapping = <<>>
    /\ AggIdle
    /\ TitlesIdle
    /\ ModelsIdle
    /\ text \in Texts
    /\ ext_pc = "strict"
    /\ lines = SplitLines(text)
    /\ line_no = 1
    /\ ranked_items = <<>>
    /\ strict_items = <<>>
    /\ used_fallback = FALSE
    /\ seen_titles = {}
    /\ unique_items = <<>>
    /\ item_no = 1

\* one iteration of `for line in lines` of the strict pass
StrictStep ==
    /\ ext_pc = "strict"
    /\ line_no <= Len(lines)
    /\ ranked_items' = ranked_items \o StrictOf(lines[line_no])
    /\ line_no' = line_no + 1
    /\ UNCHANGED <<text, ext_pc, lines, strict_items, used_fallback, seen_titles,
                   unique_items, item_no>>
    /\ UNCHANGED fanVars
    /\ UNCHANGED aggVars
    /\ UNCHANGED titleVars
    /\ UNCHANGED modelVars

\* `if len(ranked_items) < 3: ranked_items = self._fallback_extraction(text)`
Fallback ==
    /\ ext_pc = "strict"
    /\ line_no > Len(lines)
    /\ NeedsFallback(ranked_items)
    /\ strict_items' = ranked_items
    /\ ranked_items' = fallback_extraction(text)
    /\ used_fallback' = TRUE
    /\ ext_pc' = "dedup"
    /\ UNCHANGED <<text, lines, line_no, seen_titles, unique_items, item_no>>
    /\ UNCHANGED fanVars
    /\ UNCHANGED aggVars
    /\ UNCHANGED titleVars
    /\ UNCHANGED modelVars

\* the strict pass accepted enough entities: its list is kept
KeepStrict ==
    /\ ext_pc = "strict"
    /\ line_no > Len(lines)
    /\ ~NeedsFallback(ranked_items)
    /\ strict_items' = ranked_items
    /\ ext_pc' = "dedup"
    /\ UNCHANGED <<text, lines, line_no, ranked_items, used_fallback, seen_titles,
                   unique_items, item_no>>
    /\ UNCHANGED fanVars
    /\ UNCHANGED aggVars
    /\ UNCHANGED titleVars
    /\ UNCHANGED modelVars

\* one iteration of `for item in ranked_items` of the deduplication
DedupStep ==
    /\ ext_pc = "dedup"
    /\ item_no <= Len(ranked_items)
    /\ LET step == DedupItem(seen_titles, unique_items, ranked_items[item_no])
       IN  /\ seen_titles' = step.seen
           /\ unique_items' = step.unique
    /\ item_no' = item_no + 1
    /\ UNCHANGED <<text, ext_pc, lines, line_no, ranked_items, strict_items,
                   used_fallback>>
    /\ UNCHANGED fanVars
    /\ UNCHANGED aggVars
    /\ UNCHANGED titleVars
    /\ UNCHANGED modelVars

\* the renumbering loop and `return unique_items`
RenumberAndReturn ==
    /\ ext_pc = "dedup"
    /\ item_no > Len(ranked_items)
    /\ unique_items' = Renumber(unique_items)
    /\ ext_pc' = "done"
    /\ UNCHANGED <<text, lines, line_no, ranked_items, strict_items, used_fallback,
                   seen_titles, item_no>>
    /\ UNCHANGED fanVars
    /\ UNCHANGED aggVars
    /\ UNCHANGED titleVars
    /\ UNCHANGED modelVars

NextExtract == StrictStep \/ Fallback \/ KeepStrict \/ DedupStep \/ RenumberAndReturn

SpecExtract == InitExtract /\ [][NextExtract]_vars

(***************************************************************************)
(* normalize_title and find_similar_items applied to titles                *)
(***************************************************************************)
MaxWords == 2

\* the words the titles are made of
TitleWords == {wCoffee, wGator, wAirscape, wCofjarfee}

\* the titles: one to MaxWords words separated by a space
WordTitles ==
    {JoinSp(ws) : ws \in UNION {[1..n -> TitleWords] : n \in 1..MaxWords}}

\* the stop-word list in every order
StopOrders ==
    {[i \in 1..Len(StopWords) |-> StopWords[f[i]]] :
        f \in Permutations(1..Len(StopWords))}

InitTitles ==
    /\ clients = Registered
    /\ gateway = [p \in ToSet(Registered) |->
                     [kind |-> "fail", items |-> <<>>, msg |-> "timeout"]]
    /\ results_history = <<>>
    /\ pc = "idle"
    /\ platforms = <<>>
    /\ parallel = FALSE
    /\ results = <<>>
    /\ futures = <<>>
    /\ yielded = {}
    /\ idx = 0
    /\ calls = NoCalls
    /\ raised = None
    /\ model_mapping = <<>>
    /\ AggIdle
    /\ ExtIdle
    /\ ModelsIdle
    /\ title_a \in WordTitles
    /\ \/ /\ tt_pc = "normalize"
          /\ title_b = <<>>
          /\ stop_order \in StopOrders
       \/ /\ tt_pc = "match"
          /\ title_b \in WordTitles
          /\ stop_order = StopWords
    /\ normalized_key = <<>>
    /\ reordered_key = <<>>
    /\ similar_ab = <<>>
    /\ similar_ba = <<>>

\* normalize_title(title_a), and the same with the words in stop_order
NormalizeTitle ==
    /\ tt_pc = "normalize"
    /\ normalized_key' = normalize_title(title_a)
    /\ reordered_key' = normalize_title_in_order(title_a, stop_order)
    /\ tt_pc' = "normalized"
    /\ UNCHANGED <<title_a, title_b, stop_order, similar_ab, similar_ba>>
    /\ UNCHANGED fanVars
    /\ UNCHANGED aggVars
    /\ UNCHANGED extVars
    /\ UNCHANGED modelVars

\* find_similar_items each way between title_a and title_b
MatchTitles ==
    /\ tt_pc = "match"
    /\ similar_ab' = find_similar_items(title_a, <<title_b>>)
    /\ similar_ba' = find_similar_items(title_b, <<title_a>>)
    /\ tt_pc' = "matched"
    /\ UNCHANGED <<title_a, title_b, stop_order, normalized_key, reordered_key>>
    /\ UNCHANGED fanVars
    /\ UNCHANGED aggVars
    /\ UNCHANGED extVars
    /\ UNCHANGED modelVars

NextTitles == NormalizeTitle \/ MatchTitles

SpecTitles == InitTitles /\ [][NextTitles]_vars

(***************************************************************************)
(* compare_models_within_platform applied to the results of some models    *)
(***************************************************************************)
MaxModels == 2

\* what query_all_models can put under a model name: the response of the
\* client, or the one its `except Exception as e` builds
ModelResponses(model) ==
    {PlatformResponse("ChatGPT", model, Ranked(l), PayloadInputTokens,
                      PayloadOutputTokens, PayloadCost, None)
        : l \in TitleLists}
    \cup {PlatformResponse("chatgpt", model, <<>>, 0, 0, 0, Some("timeout"))}

\* the mappings with the first n models of the platform as keys
RECURSIVE ModelResultsOver(_)
ModelResultsOver(n) ==
    IF n = 0 THEN {<<>>}
    ELSE {Append(r, [key |-> ChatGPTModels[n], val |-> v]) :
              r \in ModelResultsOver(n - 1), v \in ModelResponses(ChatGPTModels[n])}

InitModels ==
    /\ clients = Registered
    /\ gateway = [p \in ToSet(Registered) |->
                     [kind |-> "fail", items |-> <<>>, msg |-> "timeout"]]
    /\ results_history = <<>>
    /\ pc = "idle"
    /\ platforms = <<>>
    /\ parallel = FALSE
    /\ results = <<>>
    /\ futures = <<>>
    /\ yielded = {}
    /\ idx = 0
    /\ calls = NoCalls
    /\ raised = None
    /\ model_mapping = <<>>
    /\ AggIdle
    /\ ExtIdle
    /\ TitlesIdle
    /\ platform_results \in UNION {ModelResultsOver(n) : n \in 0..MaxModels}
    /\ mm_pc = "start"
    /\ comparison = <<>>

CompareModels ==
    /\ mm_pc = "start"
    /\ comparison' = compare_models_within_platform(platform_results)
    /\ mm_pc' = "done"
    /\ UNCHANGED platform_results
    /\ UNCHANGED fanVars
    /\ UNCHANGED aggVars
    /\ UNCHANGED extVars
    /\ UNCHANGED titleVars

NextModels == CompareModels

SpecModels == InitModels /\ [][NextModels]_vars

(***************************************************************************)
(* Properties of the fan-out                                               *)
(***************************************************************************)
\* what the sequential branch returns for a platforms list
RECURSIVE SequentialResults(_, _)
SequentialResults(res, l) ==
    IF l = <<>> THEN res ELSE SequentialResults(SeqBody(res, Head(l)), Tail(l))

\* the entry a source's own gateway outcome calls for
EntryFor(platform) ==
    LET q == Query(platform, gateway[platform])
    IN  IF q.tag = "value" THEN q.resp ELSE ErrorResponse(platform, q.msg)

Raises(platform) == gateway[platform].kind \in {"fail", "raise"}

\* C1: with the same gateway outcomes, the aggregation output of a fan-out
\* is the one the sequential mode gives (same records, titles, rank lists
\* and ordering), whatever the completion order of the parallel tasks.
C1_ModesAgree ==
    pc = "returned" =>
        compare_rankings(results) = compare_rankings(SequentialResults(<<>>, platforms))

\* C2: in parallel mode the sources are folded in the order of the caller's
\* list, not in completion order, so the running table (first-seen titles,
\* order of ranks and sources) and the order of ties do not vary between runs.
C2_FoldOrderIsCallerOrder ==
    (pc = "returned" /\ parallel) =>
        /\ DictKeys(results) = RequestedRegistered(platforms)
        /\ LET inCallerOrder == [i \in 1..Len(RequestedRegistered(platforms)) |->
                                    [key |-> RequestedRegistered(platforms)[i],
                                     val |-> DictGet(results, RequestedRegistered(platforms)[i])]]
           IN  /\ FoldSources(<<>>, results) = FoldSources(<<>>, inCallerOrder)
               /\ DictKeys(calculate_average_rankings(results))
                      = DictKeys(calculate_average_rankings(inCallerOrder))

\* C3: when query_all_platforms returns, results has exactly one entry for
\* every requested registered source, and each entry is the one its own
\* gateway outcome calls for, whatever happened to the sibling sources.
C3_OneEntryPerSource ==
    pc = "returned" =>
        /\ Len(results) = Len(RequestedRegistered(platforms))
        /\ ToSet(DictKeys(results)) = ToSet(RequestedRegistered(platforms))
        /\ \A i \in 1..Len(results) : results[i].val = EntryFor(results[i].key)

\* a fan-out in parallel mode has returned, one source raised and a sibling
\* has its normal entry
C3_Witness ==
    /\ pc = "returned"
    /\ parallel
    /\ \E i, j \in 1..Len(results) :
        /\ gateway[results[i].key].kind = "raise"
        /\ Truthy(results[i].val.error)
        /\ gateway[results[j].key].kind = "text"
        /\ results[j].val.ranked_items # <<>>
        /\ results[j].val.error = None

\* C4: query_all_platforms never raises, whatever the platforms argument
\* and the execution mode.
C4_NeverRaises == pc # "raised"

\* C5: the result recorded for a source whose gateway call raised has the
\* exception's message as error, no ranked items and zero usage counters.
C5_ErrorResult ==
    /\ \A i \in 1..Len(results) :
          Raises(results[i].key) =>
              /\ results[i].val.error = Some(gateway[results[i].key].msg)
              /\ results[i].val.ranked_items = <<>>
              /\ results[i].val.input_tokens = 0
              /\ results[i].val.output_tokens = 0
              /\ results[i].val.cost = 0
    /\ pc = "returned" =>
          \A p \in ToSet(RequestedRegistered(platforms)) : Raises(p) => HasKey(results, p)

\* a returned fan-out holding a result for a call that failed inside the
\* client and one for a call that raised out of query
C5_Witness ==
    /\ pc = "returned"
    /\ \E i, j \in 1..Len(results) :
        /\ gateway[results[i].key].kind = "fail"
        /\ results[i].val.error = Some("timeout")
        /\ gateway[results[j].key].kind = "raise"
        /\ results[j].val.error = Some("boom")

\* C6 as stated: after any sequence of calls the tracker's state is what it
\* was before the first call.
C6_NoPersistentState ==
    /\ clients = Registered
    /\ results_history = <<>>

\* C6 amended: a call never changes clients and its results are those its
\* own gateway outcomes call for, whatever earlier calls did; but every call
\* that returns appends one entry holding its results to results_history,
\* and no step changes results_history in any other way.
C6_HistoryGrowsByOnePerCall ==
    [][ /\ clients' = clients
        /\ IF pc # "returned" /\ pc' = "returned"
           THEN /\ results_history'
                      = Append(results_history,
                               [keyword |-> "best coffee jar", results |-> results'])
                /\ ToSet(DictKeys(results')) = ToSet(RequestedRegistered(platforms'))
                /\ \A i \in 1..Len(results') : results'[i].val = EntryFor(results'[i].key)
           ELSE results_history' = results_history ]_vars

\* a second call on the same tracker has returned, with other sources than
\* the first
C6_Witness ==
    /\ pc = "returned"
    /\ Len(results_history) = 2
    /\ results_history[1].results # <<>>
    /\ ToSet(DictKeys(results_history[1].results))
           \cap ToSet(DictKeys(results_history[2].results)) = {}
    /\ results_history[2].results = results
    /\ results # <<>>

CurrentItem == agg_results[src].val.ranked_items[itm]

NewEntry(platform, item) ==
    [key |-> TitleKey(item.title),
     val |-> [title |-> item.title, ranks |-> <<item.rank>>, platforms |-> <<platform>>]]

IsFoldStep == agg_pc = "fold" /\ src' = src /\ itm' = itm + 1

\* C8 as stated: an entity joins an existing table entry exactly when
\* find_similar_items matches it with a registered key (substring of the
\* normalized titles, or two shared tokens); otherwise a new entry keyed by
\* its lower-cased, trimmed title is registered.
C8_MergeIffMatcher ==
    [][ IsFoldStep =>
            IF find_similar_items(CurrentItem.title, DictKeys(item_rankings)) # <<>>
            THEN /\ Len(item_rankings') = Len(item_rankings)
                 /\ DictKeys(item_rankings') = DictKeys(item_rankings)
            ELSE item_rankings'
                     = Append(item_rankings, NewEntry(agg_results[src].key, CurrentItem)) ]_vars

\* C8 amended: an entity joins an existing table entry exactly when its
\* normalized title equals the normalized key of that entry; its rank and
\* source are appended there and nothing else changes.  Otherwise a new
\* entry keyed by its lower-cased, trimmed title is registered.
C8_MergeIffSameNormalized ==
    [][ IsFoldStep =>
            LET same == {i \in 1..Len(item_rankings) :
                            normalize_title(item_rankings[i].key)
                                = normalize_title(CurrentItem.title)}
            IN  IF same # {}
                THEN \E i \in same :
                        item_rankings' =
                            [item_rankings EXCEPT
                                ![i].val.ranks = Append(@, CurrentItem.rank),
                                ![i].val.platforms = Append(@, agg_results[src].key)]
                ELSE item_rankings'
                         = Append(item_rankings, NewEntry(agg_results[src].key, CurrentItem)) ]_vars

\* the fold has both merged an entity into an entry registered under another
\* title and registered a new entry beside a key that find_similar_items
\* would have matched
C8_Witness ==
    /\ agg_pc = "done"
    /\ Len(agg_results) = 2
    /\ agg_results[2].val.ranked_items # <<>>
    /\ \E i \in 1..Len(item_rankings) :
          /\ Len(item_rankings[i].val.ranks) = 2
          /\ item_rankings[i].key = TitleKey(tCoffeeGatorCanister)
          /\ agg_results[2].val.ranked_items[1].title = tCoffeeGator
    /\ \E i, j \in 1..Len(item_rankings) :
          /\ i # j
          /\ Similar(item_rankings[i].key, item_rankings[j].key)

TitlesOf(response) ==
    [i \in 1..Len(response.ranked_items) |-> response.ranked_items[i].title]

\* source A then source B of test_average_rankings, each with or without
\* its third entity
IsTestInput ==
    /\ Len(agg_results) = 2
    /\ agg_results[1].val.error = None
    /\ agg_results[2].val.error = None
    /\ TitlesOf(agg_results[1].val) \in {TestListA, SubSeq(TestListA, 1, 2)}
    /\ TitlesOf(agg_results[2].val) \in {TestListB, SubSeq(TestListB, 1, 2)}

\* C9: folding A = [Airscape Coffee Canister, Coffee Gator] and then
\* B = [Coffee Gator Canister, Airscape] gives a record Coffee Gator with
\* ranks [2,1] and average 1.5 and a record Airscape Coffee Canister with
\* ranks [1,2] and average 1.5, both common items with the two sources.
C9_TestCase ==
    (agg_pc = "done" /\ IsTestInput) =>
        /\ \E i \in 1..Len(average_rankings) :
              /\ average_rankings[i].key = tCoffeeGator
              /\ average_rankings[i].val.individual_ranks = <<2, 1>>
              /\ average_rankings[i].val.average_rank = 150
        /\ \E i \in 1..Len(average_rankings) :
              /\ average_rankings[i].key = tAirscapeCoffeeCanister
              /\ average_rankings[i].val.individual_ranks = <<1, 2>>
              /\ average_rankings[i].val.average_rank = 150
        /\ \A t \in {tCoffeeGator, tAirscapeCoffeeCanister} :
              \E i \in 1..Len(CommonItems(agg_results)) :
                  /\ CommonItems(agg_results)[i].item = TitleKey(t)
                  /\ CommonItems(agg_results)[i].count = 2
                  /\ CommonItems(agg_results)[i].platforms
                         = <<agg_results[1].key, agg_results[2].key>>
        /\ Len(average_rankings) = Len(agg_results[1].val.ranked_items)
                                       + Len(agg_results[2].val.ranked_items) - 2

\* the two mock responses of the test, third entities included, are folded
C9_Witness ==
    /\ agg_pc = "done"
    /\ IsTestInput
    /\ TitlesOf(agg_results[1].val) = TestListA
    /\ TitlesOf(agg_results[2].val) = TestListB

\* the results mapping without its i-th source
RemoveAt(d, i) == SubSeq(d, 1, i - 1) \o SubSeq(d, i + 1, Len(d))

\* C10: a source that carries an error, or has no ranked entity, contributes
\* nothing: average rankings, common items and unique items are those of the
\* input without that source.
C10_SkippedSourceContributesNothing ==
    agg_pc = "done" =>
        \A i \in 1..Len(agg_results) :
            (agg_results[i].val.error # None \/ agg_results[i].val.ranked_items = <<>>) =>
                /\ average_rankings = calculate_average_rankings(RemoveAt(agg_results, i))
                /\ CommonItems(agg_results) = CommonItems(RemoveAt(agg_results, i))
                /\ UniqueItems(agg_results) = UniqueItems(RemoveAt(agg_results, i))

\* an errored source has been folded before a source with entities
C10_Witness ==
    /\ agg_pc = "done"
    /\ Len(agg_results) = 2
    /\ Truthy(agg_results[1].val.error)
    /\ Len(agg_results[2].val.ranked_items) = 2
    /\ Len(average_rankings) = 2

Abs(x) == IF x < 0 THEN -x ELSE x

\* position in the running table of the entry with a display title
TablePos(title) == CHOOSE k \in 1..Len(item_rankings) : item_rankings[k].val.title = title

\* C11: every record of calculate_average_rankings carries the ranks of one
\* table entry and their arithmetic mean rounded to two decimals; the
\* records are in ascending order of average rank, and records with equal
\* average are in the order in which their table entries were created.
C11_AveragesSorted ==
    agg_pc = "done" =>
        /\ Len(average_rankings) = Len(item_rankings)
        /\ \A i \in 1..Len(average_rankings) :
              \E k \in 1..Len(item_rankings) :
                  /\ average_rankings[i].key = item_rankings[k].val.title
                  /\ average_rankings[i].val.individual_ranks = item_rankings[k].val.ranks
                  /\ 2 * Abs(100 * SumSeq(item_rankings[k].val.ranks)
                               - Len(item_rankings[k].val.ranks)
                                     * average_rankings[i].val.average_rank)
                         <= Len(item_rankings[k].val.ranks)
        /\ \A i, j \in 1..Len(average_rankings) :
              i < j =>
                  /\ average_rankings[i].val.average_rank <= average_rankings[j].val.average_rank
                  /\ average_rankings[i].val.average_rank = average_rankings[j].val.average_rank
                         => TablePos(average_rankings[i].key) < TablePos(average_rankings[j].key)

\* the sort has moved a record and has left two records of equal average in
\* creation order
C11_Witness ==
    /\ agg_pc = "done"
    /\ \E i, j \in 1..Len(average_rankings) :
          /\ i < j
          /\ average_rankings[i].val.average_rank = average_rankings[j].val.average_rank
    /\ \E i, j \in 1..Len(average_rankings) :
          /\ i < j
          /\ TablePos(average_rankings[i].key) > TablePos(average_rankings[j].key)

\* the sources that are not skipped
Contributing(res) ==
    {i \in 1..Len(res) : ~Truthy(res[i].val.error)}

\* the normalized forms of the titles a source reported
EntitiesOf(response) ==
    {Normalized(TitleKey(response.ranked_items[i].title)) : i \in 1..Len(response.ranked_items)}

\* the sources that reported an entity, directly or as a normalized match
Reporters(res, entity) ==
    {res[i].key : i \in {k \in Contributing(res) : entity \in EntitiesOf(res[k].val)}}

\* the entities reported by any source
Entities(res) == UNION {EntitiesOf(res[i].val) : i \in Contributing(res)}

\* C12: common_items lists exactly the entities reported by more than one
\* source: every entry has at least two distinct sources, its count is the
\* number of its sources, and every entity reported by two or more distinct
\* sources has an entry.
C12_CommonItemsExact ==
    agg_pc = "done" =>
        LET common == CommonItems(agg_results)
        IN  /\ \A i \in 1..Len(common) :
                  /\ Cardinality(ToSet(common[i].platforms)) >= 2
                  /\ common[i].count = Cardinality(ToSet(common[i].platforms))
                  /\ ToSet(common[i].platforms)
                         = Reporters(agg_results, Normalized(common[i].item))
            /\ \A e \in Entities(agg_results) :
                  Cardinality(Reporters(agg_results, e)) >= 2 =>
                      \E i \in 1..Len(common) : Normalized(common[i].item) = e

\* the unique_items list of a source, empty when the source has no key there
UniqueUnder(uniq, platform) ==
    IF HasKey(uniq, platform) THEN DictGet(uniq, platform) ELSE <<>>

\* C13: under source P, unique_items lists exactly the items P reported
\* whose entity no other source reported (directly or as a normalized
\* match), in P's order; an entity reported by one source only appears under
\* that source and under no other, and no other key is in the view.
C13_UniqueItemsExact ==
    agg_pc = "done" =>
        LET uniq == UniqueItems(agg_results)
        IN  /\ \A i \in 1..Len(uniq) :
                  /\ uniq[i].val # <<>>
                  /\ \E k \in Contributing(agg_results) :
                        agg_results[k].key = uniq[i].key
            /\ \A k \in Contributing(agg_results) :
                  LET P == agg_results[k].key
                      reported == [n \in 1..Len(agg_results[k].val.ranked_items) |->
                                      TitleKey(agg_results[k].val.ranked_items[n].title)]
                  IN  UniqueUnder(uniq, P)
                          = SelectSeq(reported,
                                      LAMBDA t : Reporters(agg_results, Normalized(t)) = {P})
            /\ \A e \in Entities(agg_results) :
                  \A P \in ToSet(DictKeys(agg_results)) :
                      (\E n \in 1..Len(UniqueUnder(uniq, P)) :
                           Normalized(UniqueUnder(uniq, P)[n]) = e)
                          <=> Reporters(agg_results, e) = {P}

\* the first source has two items nobody else reported, and the second
\* source, whose only item the first reported too, is not in the view
C13_Witness ==
    /\ agg_pc = "done"
    /\ Len(agg_results) = 2
    /\ Contributing(agg_results) = {1, 2}
    /\ Len(agg_results[2].val.ranked_items) = 1
    /\ LET uniq == UniqueItems(agg_results)
       IN  /\ Len(UniqueUnder(uniq, agg_results[1].key)) = 2
           /\ ~HasKey(uniq, agg_results[2].key)

IsPrefix(s, t) == Len(s) <= Len(t) /\ SubSeq(t, 1, Len(s)) = s

\* C14: a step of the fold never deletes a table entry, never changes the
\* key or the display title of an entry, and changes ranks and platforms
\* only by appending; an entry is created with the original-case title of
\* the entity that created it.
C14_EntriesOnlyGrow ==
    [][ agg_pc = "fold" =>
            /\ Len(item_rankings') >= Len(item_rankings)
            /\ \A i \in 1..Len(item_rankings) :
                  /\ item_rankings'[i].key = item_rankings[i].key
                  /\ item_rankings'[i].val.title = item_rankings[i].val.title
                  /\ IsPrefix(item_rankings[i].val.ranks, item_rankings'[i].val.ranks)
                  /\ IsPrefix(item_rankings[i].val.platforms, item_rankings'[i].val.platforms)
            /\ \A i \in (Len(item_rankings) + 1)..Len(item_rankings') :
                  /\ IsFoldStep
                  /\ item_rankings'[i].val.title = CurrentItem.title
                  /\ item_rankings'[i].key = TitleKey(CurrentItem.title) ]_vars

\* an entry created by the first source under one title has taken the rank
\* of a later entity written differently
C14_Witness ==
    /\ agg_pc = "done"
    /\ Len(agg_results) = 2
    /\ Len(agg_results[2].val.ranked_items) = 2
    /\ agg_results[2].val.ranked_items[2].title = tCoffeeGator
    /\ \E i \in 1..Len(item_rankings) :
          /\ item_rankings[i].val.title = tCoffeeGatorCanister
          /\ item_rankings[i].val.ranks = <<1, 2>>
          /\ item_rankings[i].val.platforms = <<agg_results[1].key, agg_results[2].key>>

(***************************************************************************)
(* Properties of the extraction                                            *)
(***************************************************************************)
tCoffeeGatorContainer == wCoffee \o Sp \o wGator \o Sp \o wContainer
tOXOPOP == wOXO \o Sp \o <<"P", "O", "P">>
tKeyFeatures ==
    <<"K", "e", "y", " ", "f", "e", "a", "t", "u", "r", "e", "s", " ", "i",
      "n", "c", "l", "u", "d", "e", " ", "d", "u", "r", "a", "b", "i", "l",
      "i", "t", "y", " ", "a", "n", "d", " ", "s", "t", "y", "l", "e">>
uFellowAtmos ==
    <<"h", "t", "t", "p", "s", ":", "/", "/", "f", "e", "l", "l", "o", "w",
      "p", "r", "o", "d", "u", "c", "t", "s", ".", "c", "o", "m", "/", "a",
      "t", "m", "o", "s">>

\* an entity with a source URL
WithSource(rank, title, url) == [RankResult(rank, title) EXCEPT !.source = Some(url)]

\* C15: the list extract_rankings returns has ranks 1, 2, ..., K in list
\* order, whatever numbers the text carried and whichever pass found the
\* entities.
C15_RanksDense ==
    ext_pc = "done" => \A i \in 1..Len(unique_items) : unique_items[i].rank = i

\* the strict pass kept its entities, which the text numbered otherwise
\* than 1, 2, ..., and one of them was dropped as a duplicate
C15_Witness ==
    /\ ext_pc = "done"
    /\ ~used_fallback
    /\ Len(unique_items) = 2
    /\ \E i \in 1..Len(ranked_items) : ranked_items[i].rank > 3

\* the lines of a text that the numbered pattern accepts
AcceptedNumbered == {i \in 1..Len(lines) : StrictOf(lines[i]) # <<>>}

\* C16: a response of two well-formed numbered lines gives the two entities
\* of those lines, ranked 1 and 2; for "1. Fellow Atmos Vacuum Canister -
\* https://fellowproducts.com/atmos" and "2. Coffee Gator Container" these
\* are Fellow Atmos Vacuum Canister with its URL and Coffee Gator Container
\* without a URL.
C16_TwoNumberedLines ==
    /\ (ext_pc = "done" /\ text = JoinLines(<<lFellowUrl, lGatorContainer>>)) =>
           unique_items = << WithSource(1, tFellowAtmosVacuumCanister, uFellowAtmos),
                             RankResult(2, tCoffeeGatorContainer) >>
    /\ (/\ ext_pc = "done"
        /\ Len(lines) = 2
        /\ AcceptedNumbered = {1, 2}
        /\ TitleKey(StrictOf(lines[1])[1].title) # TitleKey(StrictOf(lines[2])[1].title)) =>
           /\ Len(unique_items) = 2
           /\ \A i \in 1..2 :
                 /\ unique_items[i].title = StrictOf(lines[i])[1].title
                 /\ unique_items[i].source = StrictOf(lines[i])[1].source

\* the titles of the bold-marked candidates the lines hold, in line order
RECURSIVE BoldTitles(_)
BoldTitles(ls) ==
    IF ls = <<>> THEN <<>>
    ELSE (IF FallbackOf(Head(ls)) = <<>> THEN <<>> ELSE <<FallbackOf(Head(ls))[1].title>>)
         \o BoldTitles(Tail(ls))

\* C17: the fallback pass runs exactly when the strict pass accepted fewer
\* than 3 entities, duplicates included; its entities are the accepted
\* bold-marked titles numbered 1, 2, ... in line order.  A text of three
\* lines, none numbered, each holding one accepted bold title, the three
\* distinct after lower-casing, yields the three titles ranked 1 to 3 in
\* line order.
C17_FallbackWhenFewerThanThree ==
    /\ ext_pc \in {"dedup", "done"} =>
           /\ used_fallback <=> Len(strict_items) < 3
           /\ used_fallback =>
                  /\ [i \in 1..Len(ranked_items) |-> ranked_items[i].title] = BoldTitles(lines)
                  /\ ext_pc = "dedup" =>
                         \A i \in 1..Len(ranked_items) : ranked_items[i].rank = i
    /\ (ext_pc = "done" /\ text = JoinLines(<<lBoldFellow, lBoldGator, lBoldOXO>>)) =>
           unique_items = << RankResult(1, tFellowAtmos), RankResult(2, tCoffeeGator),
                             RankResult(3, tOXOPOP) >>
    /\ (/\ ext_pc = "done"
        /\ Len(lines) = 3
        /\ \A i \in 1..3 : Strip(lines[i]) # <<>> /\ ~IsDigit(Strip(lines[i])[1])
        /\ Len(BoldTitles(lines)) = 3
        /\ Cardinality({TitleKey(BoldTitles(lines)[i]) : i \in 1..3}) = 3) =>
           /\ Len(unique_items) = 3
           /\ \A i \in 1..3 :
                 /\ unique_items[i].rank = i
                 /\ unique_items[i].title = BoldTitles(lines)[i]

\* three lines with one bold title each, none numbered, have been read by
\* the fallback pass
C17_Witness ==
    /\ ext_pc = "done"
    /\ used_fallback
    /\ strict_items = <<>>
    /\ text = JoinLines(<<lBoldOXO, lBoldFellow, lBoldGator>>)
    /\ Len(unique_items) = 3

\* the candidates that are the first with their lower-cased, trimmed title
FirstOccurrences(items) ==
    LET first == {k \in 1..Len(items) :
                     \A j \in 1..(k - 1) :
                         Strip(Lower(items[j].title)) # Strip(Lower(items[k].title))}
        pick(i) == CHOOSE k \in first : Cardinality({j \in first : j <= k}) = i
    IN  [i \in 1..Cardinality(first) |-> items[pick(i)]]

\* C18: no two returned entities have the same title after lower-casing and
\* trimming, and the returned entities are, in order, the candidates that
\* were the first with their title.
C18_FirstOccurrenceKept ==
    /\ \A i, j \in 1..Len(unique_items) :
          i # j => Strip(Lower(unique_items[i].title)) # Strip(Lower(unique_items[j].title))
    /\ ext_pc = "done" =>
          /\ Len(unique_items) = Len(FirstOccurrences(ranked_items))
          /\ \A i \in 1..Len(unique_items) :
                /\ unique_items[i].title = FirstOccurrences(ranked_items)[i].title
                /\ unique_items[i].source = FirstOccurrences(ranked_items)[i].source

\* the strict pass accepted a title twice, in different case, and the first
\* spelling is the one returned
C18_Witness ==
    /\ ext_pc = "done"
    /\ ~used_fallback
    /\ \E i, j \in 1..Len(ranked_items) :
          /\ i < j
          /\ ranked_items[i].title # ranked_items[j].title
          /\ Lower(ranked_items[i].title) = Lower(ranked_items[j].title)
          /\ \E k \in 1..Len(unique_items) : unique_items[k].title = ranked_items[i].title
          /\ \A k \in 1..Len(unique_items) : unique_items[k].title # ranked_items[j].title

\* C19: the post-processing step is idempotent: on the list it returned (no
\* duplicates, ranks 1..K) it gives the same titles and URLs in the same
\* order with the same ranks, and so it does on its own result for the
\* candidates of either pass.
C19_PostProcessIdempotent ==
    /\ ext_pc = "done" => PostProcess(unique_items) = unique_items
    /\ ext_pc \in {"dedup", "done"} =>
          PostProcess(PostProcess(ranked_items)) = PostProcess(ranked_items)

\* the post-processing has dropped a duplicate of the fallback pass and
\* returned two entities
C19_Witness ==
    /\ ext_pc = "done"
    /\ used_fallback
    /\ Len(ranked_items) = 3
    /\ Len(unique_items) = 2

EmittedTitles ==
    {ranked_items[i].title : i \in 1..Len(ranked_items)}
        \cup {strict_items[i].title : i \in 1..Len(strict_items)}
        \cup {unique_items[i].title : i \in 1..Len(unique_items)}

\* C20: every entity either pass emits has a trimmed title of 3 to 100
\* characters that does not begin, in any case, with a descriptive prefix;
\* the numbered line "Key features include durability and style" is never
\* emitted.
C20_EmittedTitlesAcceptable ==
    \A t \in EmittedTitles :
        /\ Len(Strip(t)) >= 3
        /\ Len(Strip(t)) <= 100
        /\ \A p \in 1..Len(reject_patterns) :
              ~StartsWith(Lower(Strip(t)), reject_patterns[p])
        /\ t # tKeyFeatures

\* the strict pass has read the numbered Key features line and the line
\* with a title of 101 characters, and accepted only the third line
C20_Witness ==
    /\ ext_pc = "done"
    /\ \E i, j \in 1..Len(lines) : lines[i] = lKeyFeatures /\ lines[j] = lTooLong
    /\ Len(strict_items) = 1

\* the entity, if any, that the pass whose list was kept reads on line k
Produced(k) ==
    IF used_fallback THEN FallbackOf(lines[k]) ELSE StrictOf(lines[k])

\* the first line on which the kept pass reads the title and URL of e
\* (0 when no line does)
FirstLine(e) ==
    LET from == {k \in 1..Len(lines) :
                    /\ Produced(k) # <<>>
                    /\ Produced(k)[1].title = e.title
                    /\ Produced(k)[1].source = e.source}
    IN  IF from = {} THEN 0 ELSE CHOOSE k \in from : \A j \in from : k <= j

\* C21: the returned entities appear in the order of the lines they were
\* extracted from: each was read on a line of the text, and when x precedes y
\* in the output the line that produced x precedes the line that produced y,
\* for the strict and for the fallback pass.
C21_LineOrderPreserved ==
    /\ \A i \in 1..Len(unique_items) : FirstLine(unique_items[i]) > 0
    /\ \A i, j \in 1..Len(unique_items) :
          i < j => FirstLine(unique_items[i]) < FirstLine(unique_items[j])

\* the fallback pass has read two entities on the first and the third line
\* of a text whose second line holds none, and both were returned
C21_Witness ==
    /\ ext_pc = "done"
    /\ used_fallback
    /\ Len(lines) = 3
    /\ FallbackOf(lines[2]) = <<>>
    /\ Len(unique_items) = 2
    /\ FirstLine(unique_items[1]) = 1
    /\ FirstLine(unique_items[2]) = 3

\* the part of the input the folds have gone through: the sources before src
\* and, of source src, the items before itm
FoldedSoFar ==
    IF src > Len(agg_results) THEN agg_results
    ELSE SubSeq(agg_results, 1, src - 1)
         \o << [agg_results[src] EXCEPT
                   !.val.ranked_items = SubSeq(@, 1, itm - 1)] >>

\* all_items of compare_rankings at the same point of its own fold
AllItemsSoFar == AllItems(<<>>, FoldedSoFar)

PairwiseDistinctNormalized(keys) ==
    \A i, j \in 1..Len(keys) : i # j => Normalized(keys[i]) # Normalized(keys[j])

\* C25: at every step of the fold of calculate_average_rankings, and of the
\* fold of compare_rankings, the registered keys have pairwise distinct
\* normalized forms, so the next entity matches at most one of them.
C25_KeysDistinctNormalized ==
    /\ PairwiseDistinctNormalized(DictKeys(item_rankings))
    /\ PairwiseDistinctNormalized(DictKeys(AllItemsSoFar))
    /\ (agg_pc = "fold" /\ src <= Len(agg_results)
            /\ itm <= Len(agg_results[src].val.ranked_items)) =>
          Cardinality({i \in 1..Len(item_rankings) :
                          Normalized(item_rankings[i].key)
                              = Normalized(TitleKey(CurrentItem.title))}) <= 1

\* the second source's first entity has just been merged into the entry the
\* first source registered under another title, beside a second entry
C25_Witness ==
    /\ agg_pc = "fold"
    /\ src = 2
    /\ itm = 2
    /\ ~Truthy(agg_results[2].val.error)
    /\ Len(item_rankings) = 2
    /\ \E i \in 1..Len(item_rankings) :
          /\ Len(item_rankings[i].val.ranks) = 2
          /\ item_rankings[i].key # TitleKey(agg_results[2].val.ranked_items[1].title)

\* the number of ranked entities of the sources that are not skipped
RECURSIVE TotalEntities(_)
TotalEntities(res) ==
    IF res = <<>> THEN 0
    ELSE (IF Truthy(res[1].val.error) THEN 0 ELSE Len(res[1].val.ranked_items))
         + TotalEntities(Tail(res))

\* C26: every entity occurrence of every source that is not errored is
\* recorded exactly once: each record of calculate_average_rankings has as
\* many individual ranks as platforms as appearances, and the appearances
\* of all records add up to the number of ranked entities of those sources.
C26_EveryOccurrenceOnce ==
    agg_pc = "done" =>
        /\ \A i \in 1..Len(average_rankings) :
              /\ Len(average_rankings[i].val.individual_ranks)
                     = average_rankings[i].val.appearances
              /\ Len(average_rankings[i].val.platforms)
                     = average_rankings[i].val.appearances
        /\ SumSeq([i \in 1..Len(average_rankings) |->
                      average_rankings[i].val.appearances])
               = TotalEntities(agg_results)

\* one source wrote an entity under two titles: its record has two
\* appearances from that one source, beside the record of another source
C26_Witness ==
    /\ agg_pc = "done"
    /\ Len(average_rankings) = 2
    /\ TotalEntities(agg_results) = 3
    /\ \E i \in 1..Len(average_rankings) :
          /\ average_rankings[i].val.appearances = 2
          /\ Cardinality(ToSet(average_rankings[i].val.platforms)) = 1

\* C27: the two folds group the entities identically: at every step all_items
\* and item_rankings have the same keys in the same order and, per key, the
\* same sequence of contributing sources; so the common-items view lists
\* exactly the entities whose consensus record has two or more appearances.
C27_FoldsGroupIdentically ==
    /\ AllItemsSoFar
           = [i \in 1..Len(item_rankings) |->
                 [key |-> item_rankings[i].key, val |-> item_rankings[i].val.platforms]]
    /\ agg_pc = "done" =>
          LET common == CommonItems(agg_results)
          IN  {common[i].item : i \in 1..Len(common)}
                  = {TitleKey(average_rankings[i].key) :
                        i \in {k \in 1..Len(average_rankings) :
                                  average_rankings[k].val.appearances >= 2}}

\* two sources: an entity both reported under different titles is in the
\* common-items view, an entity only one of them reported is not
C27_Witness ==
    /\ agg_pc = "done"
    /\ Contributing(agg_results) = {1, 2}
    /\ Len(item_rankings) = 2
    /\ Len(CommonItems(agg_results)) = 1
    /\ ToSet(CommonItems(agg_results)[1].platforms)
           = {agg_results[1].key, agg_results[2].key}
    /\ agg_results[1].val.ranked_items[1].title
           # agg_results[2].val.ranked_items[1].title

\* C28: the common-items view and the unique-items view are disjoint: no
\* entity listed in common_items is listed under a source in unique_items.
C28_CommonAndUniqueDisjoint ==
    agg_pc = "done" =>
        LET common == CommonItems(agg_results)
            uniq == UniqueItems(agg_results)
        IN  \A c \in 1..Len(common) :
                \A u \in 1..Len(uniq) :
                    \A n \in 1..Len(uniq[u].val) :
                        Normalized(uniq[u].val[n]) # Normalized(common[c].item)

\* C24: every source whose gateway call raised an exception, whatever its
\* message (the empty one included), is recognised as errored by the
\* consumers: calculate_average_rankings skips it and the summary of
\* compare_rankings reports it as an error, not as a source with 0 items.
C24_RaisedSourceSeenAsErrored ==
    pc = "returned" =>
        \A i \in 1..Len(results) :
            gateway[results[i].key].kind = "raise" =>
                /\ Truthy(results[i].val.error)
                /\ "error" \in DOMAIN Summary(results)[i].val
                /\ "items_found" \notin DOMAIN Summary(results)[i].val

(***************************************************************************)
(* Properties of the title functions                                       *)
(***************************************************************************)
\* C22: the entity matcher is symmetric: find_similar_items reports b as
\* similar to a exactly when it reports a as similar to b.
C22_MatcherSymmetric ==
    tt_pc = "matched" => ((similar_ab # <<>>) <=> (similar_ba # <<>>))

\* two titles with the same two words in different order, neither normalized
\* form inside the other: each is reported for the other by the shared words
C22_Witness ==
    /\ tt_pc = "matched"
    /\ ~IsSubstring(Normalized(title_a), Normalized(title_b))
    /\ ~IsSubstring(Normalized(title_b), Normalized(title_a))
    /\ similar_ab = <<title_b>>
    /\ similar_ba = <<title_a>>

\* C23: normalize_title removes the stop words independently of order:
\* removing them in any permutation of the list gives the same key.
C23_OrderIndependent ==
    tt_pc = "normalized" => reordered_key = normalized_key

(***************************************************************************)
(* Properties of the comparison of models and of the --models option       *)
(***************************************************************************)
\* C29: every consensus item was reported by at least two distinct models,
\* its agreement_score (listed models over models in the input) is at most
\* 1, and consensus_items is in order of non-increasing agreement_score.
C29_ConsensusWellFormed ==
    mm_pc = "done" =>
        LET items == comparison.consensus_items
        IN  /\ \A i \in 1..Len(items) :
                  /\ Cardinality(ToSet(items[i].models)) >= 2
                  /\ items[i].agreement_score.num <= items[i].agreement_score.den
            /\ \A i, j \in 1..Len(items) :
                  i < j => ~ScoreLess(items[i].agreement_score, items[j].agreement_score)

\* C30: with --models, query_all_platforms calls each requested gateway once
\* with the model name given for it and records the gateway's normal result.
C30_OverrideQueriesWithModel ==
    (pc = "returned" /\ model_mapping # <<>>) =>
        \A i \in 1..Len(results) :
            LET platform == results[i].key
                q == QueryAs(platform, gateway[platform],
                             DictGet(model_mapping, platform))
            IN  /\ calls[platform] >= 1
                /\ results[i].val = IF q.tag = "value" THEN q.resp
                                     ELSE ErrorResponse(platform, q.msg)

====
